---- MODULE Spec2Model ----
(***************************************************************************)
(* CalcHub: the calculators of src/calculators as state machines.          *)
(*                                                                         *)
(* Every calculator is a function of its arguments.  A call is modelled    *)
(* as: the arguments (drawn in the initial state), the position of the     *)
(* call (its pc), the locals of its loops, and what the call returned or   *)
(* raised.                                                                 *)
(*                                                                         *)
(* Numbers.  decimal.Decimal values and Python floats are fixed-point      *)
(* integers counting units of 10^-DecPlaces ("micro-units" for 6 places).  *)
(* A product or a quotient is rounded half-even to that many places, as    *)
(* the decimal context rounds to its precision; quantize(Decimal('0.01'),  *)
(* ROUND_HALF_UP) rounds half away from zero to cents.  Reported floats    *)
(* of quantized values are integers counting cents.  Products are formed   *)
(* without leaving the 32-bit range (MulDivQR).                            *)
(***************************************************************************)
EXTENDS Integers, Sequences, FiniteSets, TLC

VARIABLES
    loanIn,     \* arguments of calculate_loan
    loanPc,     \* position of the call
    loanLoc,    \* locals of calculate_reducing_balance_loan / calculate_flat_rate_loan
    loanOut,    \* what the call returned or raised
    mortIn,     \* arguments of calculate_mortgage
    mortPc,     \* position of the call
    mortLoc,    \* its locals
    mortOut,    \* what the call returned or raised
    gpaIn,      \* arguments of calculate_gpa
    gpaOut,     \* what the call returned or raised
    ciIn,       \* arguments of calculate_compound_interest
    ciOut,      \* what the call returned or raised
    attIn,      \* arguments of calculate_attendance
    attOut,     \* what the call returned or raised
    loanPrev,   \* the call of calculate_loan made before this one, and what it returned
    bmiIn,      \* arguments of get_bmi_category
    bmiOut,     \* what the call returned
    unitIn,     \* arguments of convert_unit
    unitOut,    \* what the call returned
    unitBack,   \* what the call that converts the result back returned
    curIn,      \* arguments of convert_currency
    curOut,     \* what the call returned
    now,        \* the reading of the wall clock
    prevOut,    \* what an earlier call with the same arguments returned
    attDet,     \* what calculate_attendance returned or raised when called with detailed=True
    gpaDet,     \* what calculate_gpa returned or raised when called with detailed=True
    histFile,   \* the entries in calculation_history.json
    histCall,   \* the HistoryManager call of each caller, and its position
    histStored, \* the entries that save_calculation has stored
    ageIn,      \* arguments of calculate_age
    ageOut      \* what the call returned or raised

loanVars == <<loanIn, loanPc, loanLoc, loanOut>>
mortVars == <<mortIn, mortPc, mortLoc, mortOut>>
gpaVars == <<gpaIn, gpaOut>>
ciVars == <<ciIn, ciOut>>
attVars == <<attIn, attOut>>
sweepVars == <<loanPrev>>
bmiVars == <<bmiIn, bmiOut>>
unitVars == <<unitIn, unitOut, unitBack>>
curVars == <<curIn, curOut>>
clockVars == <<now, prevOut>>
detailVars == <<attDet, gpaDet>>
histVars == <<histFile, histCall, histStored>>
ageVars == <<ageIn, ageOut>>

vars == <<loanVars, mortVars, gpaVars, ciVars, attVars, sweepVars, bmiVars, unitVars, curVars, clockVars, detailVars, histVars, ageVars>>

\* a calculator that is not called in a specification stays idle
Idle == [kind |-> "idle"]

\* a call that has not ended
Pending == [kind |-> "none"]

----------------------------------------------------------------------------
(* Fixed-point arithmetic                                                  *)

\* decimal places kept by the model's Decimal and float values
DecPlaces == 6

SCALE == 10 ^ DecPlaces

\* one cent in units of 10^-DecPlaces
CENT == SCALE \div 100

Abs(x) == IF x < 0 THEN -x ELSE x

Sgn(x) == IF x < 0 THEN -1 ELSE 1

\* <<(a*b) \div c, (a*b) % c>> for naturals a, b and c > 0, one digit of b
\* at a time; the digits are as wide as c leaves room for in 32 bits
RECURSIVE MulDivQR(_, _, _)
MulDivQR(a, b, c) ==
    IF b = 0 THEN <<0, 0>>
    ELSE IF a < 32768 /\ b < 32768 THEN <<(a * b) \div c, (a * b) % c>>
    ELSE LET base == IF c <= 16000000 THEN 64 ELSE 2
             h  == MulDivQR(a, b \div base, c)
             d  == b % base
             q2 == base * h[1] + d * (a \div c)
             r2 == base * h[2] + d * (a % c)
         IN  <<q2 + (r2 \div c), r2 % c>>

\* a*b/c rounded half to even, for naturals a, b and c > 0
RoundHE(a, b, c) ==
    LET qr == MulDivQR(a, b, c)
        up == 2 * qr[2] > c \/ (2 * qr[2] = c /\ qr[1] % 2 = 1)
    IN  qr[1] + (IF up THEN 1 ELSE 0)

\* a*b/c rounded half to even (the decimal context's ROUND_HALF_EVEN), c # 0;
\* the operands are evaluated before the product is formed
MulDivHE(a, b, c) ==
    CHOOSE r \in {Sgn(x) * Sgn(y) * Sgn(z) * RoundHE(Abs(x), Abs(y), Abs(z)) :
                     x \in {a}, y \in {b}, z \in {c}} : TRUE

\* Decimal.__mul__ / float *
DMul(x, y) == MulDivHE(x, y, SCALE)

\* Decimal.__truediv__ / float /   (y # 0)
DDiv(x, y) == MulDivHE(x, SCALE, y)

\* x ** n for an int n >= 0, by squaring
RECURSIVE DPow(_, _)
DPow(x, n) ==
    IF n = 0 THEN SCALE
    ELSE IF n = 1 THEN x
    ELSE LET h == DPow(x, n \div 2)
         IN  IF n % 2 = 1 THEN DMul(DMul(h, h), x) ELSE DMul(h, h)

\* float(x.quantize(Decimal('0.01'), rounding=ROUND_HALF_UP)), in cents
Cents(x) ==
    LET q == Abs(x) \div CENT
        r == Abs(x) % CENT
    IN  Sgn(x) * (q + (IF 2 * r >= CENT THEN 1 ELSE 0))

\* x.quantize(Decimal('0.01'), rounding=ROUND_HALF_UP), as a Decimal
Quantize2(x) == Cents(x) * CENT

\* Decimal(str(n)) for a whole number n
Dec(n) == n * SCALE

\* x / Decimal(str(n)) for a whole number n # 0
DDivN(x, n) == MulDivHE(x, 1, n)

Max(a, b) == IF a >= b THEN a ELSE b

----------------------------------------------------------------------------
(* calculate_loan: arguments                                               *)

MAX_AMOUNT == 100000000
MAX_RATE == 50
MAX_DURATION == 40

\* the longest valid duration drawn, in quarters of a year (3 months each)
MaxQuarters == 6

\* the largest prepayment_month drawn
MaxPrepayMonth == 2

\* amount, in whole currency units
LoanAmounts == {-1, 0, 50, 100, MAX_AMOUNT + 1}

\* rate, in percent per year
LoanRates == {-1, 0, 12, 48, MAX_RATE + 1}

\* duration, in hundredths of a year: -1, 0, 0.05 (less than a month),
\* 0.25 .. MaxQuarters * 0.25, and 41 years
LoanDurations ==
    {-100, 0, 5, (MAX_DURATION + 1) * 100} \cup {25 * k : k \in 1..MaxQuarters}

LoanTypes == {"reducing", "flat", "Flat", "balloon"}

\* prepayment, in whole currency units; 0 stands for None and for 0 (both falsy)
LoanPrepayments == {0, 40, 100}

\* prepayment_month; 0 stands for None and for 0 (both falsy)
LoanPrepayMonths == 0..MaxPrepayMonth

LoanInputs ==
    [amount : LoanAmounts, rate : LoanRates, duration : LoanDurations,
     loan_type : LoanTypes, prepayment : LoanPrepayments,
     prepayment_month : LoanPrepayMonths, detailed : BOOLEAN]

\* str.lower() on the loan types drawn
Lower(s) == IF s = "Flat" THEN "flat" ELSE s

NoLocals ==
    [principal |-> 0, annual_rate |-> 0, years |-> 0, monthly_rate |-> 0,
     months |-> 0, emi |-> 0, balance |-> 0, month |-> 0,
     total_interest_paid |-> 0, total_principal_paid |-> 0,
     total_interest |-> 0, total_payment |-> 0,
     principal_per_month |-> 0, interest_per_month |-> 0,
     schedule |-> <<>>]

----------------------------------------------------------------------------
(* calculate_loan: validation                                              *)

\* a validation that lacks the upper limits of rate and duration
LoanValidationWithoutLimits(in) ==
    IF in.amount <= 0 THEN "Loan amount must be greater than zero."
    ELSE IF in.rate < 0 THEN "Interest rate cannot be negative."
    ELSE IF in.duration <= 0 THEN "Loan duration must be greater than zero."
    ELSE IF in.amount > MAX_AMOUNT THEN "Loan amount exceeds maximum limit."
    ELSE ""

\* the message of the LoanCalculationError raised, "" when the input passes
LoanValidationMessage(in) ==
    IF in.amount <= 0 THEN "Loan amount must be greater than zero."
    ELSE IF in.rate < 0 THEN "Interest rate cannot be negative."
    ELSE IF in.duration <= 0 THEN "Loan duration must be greater than zero."
    ELSE IF in.amount > MAX_AMOUNT THEN "Loan amount exceeds maximum limit."
    ELSE IF in.rate > MAX_RATE
         THEN "Interest rate seems unusually high. Please verify."
    ELSE IF in.duration > MAX_DURATION * 100
         THEN "Loan duration exceeds maximum limit of 40 years."
    ELSE ""

\* int(years * 12), years = duration/100
MonthsOf(duration) == (duration * 12) \div 100

\* whether the loan type selects calculate_flat_rate_loan
IsFlat(in) == Lower(in.loan_type) = "flat"

\* annual_rate / (Decimal('12') * Decimal('100'))
MonthlyRate(annual_rate) == DDivN(annual_rate, 12 * 100)

\* the EMI of the reducing-balance method, rounded to cents
ReducingEmi(principal, monthly_rate, months) ==
    IF monthly_rate = 0
    THEN Quantize2(DDivN(principal, months))
    ELSE LET pw == DPow(SCALE + monthly_rate, months)
         IN  Quantize2(DDiv(DMul(DMul(principal, monthly_rate), pw), pw - SCALE))

\* calculate_loan up to the first loop: validate, convert, pick the method
LoanCall ==
    /\ loanPc = "call"
    /\ LET msg == LoanValidationMessage(loanIn)
           principal == Dec(loanIn.amount)
           annual_rate == Dec(loanIn.rate)
           years == loanIn.duration * (SCALE \div 100)
           months == MonthsOf(loanIn.duration)
           monthly_rate == MonthlyRate(annual_rate)
           base == [NoLocals EXCEPT !.principal = principal,
                                    !.annual_rate = annual_rate,
                                    !.years = years, !.months = months]
       IN  IF msg # ""
           THEN /\ loanPc' = "raised"
                /\ loanOut' = [kind |-> "raised", exc |-> "LoanCalculationError",
                               message |-> msg]
                /\ UNCHANGED loanLoc
           ELSE IF months = 0
           THEN \* principal / Decimal('0'), or the annuity formula's zero divisor
                /\ loanPc' = "raised"
                /\ loanOut' = [kind |-> "raised", exc |-> "DivisionByZero",
                               message |-> ""]
                /\ loanLoc' = base
           ELSE IF IsFlat(loanIn)
           THEN LET total_interest == 
                        DMul(DMul(principal, DDivN(annual_rate, 100)), years)
                    total_payment == principal + total_interest
                    qti == Quantize2(total_interest)
                IN  /\ loanPc' = "flat"
                    /\ loanLoc' = [base EXCEPT
                          !.emi = Quantize2(DDivN(total_payment, months)),
                          !.total_interest = qti,
                          !.total_payment = Quantize2(total_payment),
                          !.principal_per_month = DDivN(principal, months),
                          !.interest_per_month = DDivN(qti, months)]
                    /\ UNCHANGED loanOut
           ELSE /\ loanPc' = "ledger"
                /\ loanLoc' = [base EXCEPT
                      !.monthly_rate = monthly_rate,
                      !.emi = ReducingEmi(principal, monthly_rate, months),
                      !.balance = principal]
                /\ UNCHANGED loanOut
    /\ UNCHANGED <<loanIn, mortVars, gpaVars, ciVars, attVars, sweepVars, bmiVars, unitVars, curVars, clockVars, detailVars, histVars, ageVars>>

----------------------------------------------------------------------------
(* calculate_reducing_balance_loan: the amortization schedule              *)

\* whether the prepayment is applied in this month
IsPrepaymentMonth(in, month) ==
    in.prepayment # 0 /\ in.prepayment_month # 0 /\ month = in.prepayment_month

\* the 'emi' a row of the reducing schedule reports, in cents
RowEmi(in, emi, month) ==
    IF IsPrepaymentMonth(in, month)
    THEN Cents(emi + Dec(in.prepayment))
    ELSE Cents(emi)

\* a loop that re-amortizes the balance left by a prepayment over the months
\* that remain
EmiReamortized(in, l, month, balance) ==
    IF IsPrepaymentMonth(in, month) /\ balance > 0 /\ month < l.months
    THEN ReducingEmi(balance, l.monthly_rate, l.months - month)
    ELSE l.emi

\* the scheduled payment the loop carries into the next month: the loop never
\* assigns emi, whatever was paid in this month
EmiAfter(in, l, month, balance) == l.emi

\* a loop that runs to the end of the term whatever the balance
LoopEndsAtTerm(balance, month, months) == month = months

\* a loop that ends only when the balance is paid off
LoopEndsOnPayoff(balance, month, months) == balance <= 0

\* whether the loop over the months ends after this month: the range is
\* exhausted, or the break is taken
LoopEnds(balance, month, months) == balance <= 0 \/ month = months

\* one pass of the loop over the months, with its break
LoanPeriod ==
    /\ loanPc = "ledger"
    /\ LET l == loanLoc
           month == l.month + 1
           interest_payment == DMul(l.balance, l.monthly_rate)
           pre == IsPrepaymentMonth(loanIn, month)
           prepayment_amount == IF pre THEN Dec(loanIn.prepayment) ELSE 0
           principal_payment == l.emi - interest_payment + prepayment_amount
           balance == l.balance - principal_payment
           row == [month |-> month,
                   emi |-> RowEmi(loanIn, l.emi, month),
                   principal |-> Cents(principal_payment),
                   interest |-> Cents(interest_payment),
                   balance |-> Cents(Max(balance, 0)),
                   prepayment |-> Cents(prepayment_amount)]
       IN  /\ loanLoc' = [l EXCEPT
                 !.month = month,
                 !.balance = balance,
                 !.emi = EmiAfter(loanIn, l, month, balance),
                 !.schedule = Append(@, row),
                 !.total_interest_paid = @ + interest_payment,
                 !.total_principal_paid = @ + principal_payment]
           /\ loanPc' = IF LoopEnds(balance, month, l.months)
                        THEN "assemble" ELSE "ledger"
    /\ UNCHANGED <<loanIn, loanOut, mortVars, gpaVars, ciVars, attVars, sweepVars, bmiVars, unitVars, curVars, clockVars, detailVars, histVars, ageVars>>

----------------------------------------------------------------------------
(* calculate_flat_rate_loan: the schedule                                  *)

\* one pass of the loop over the months
FlatPeriod ==
    /\ loanPc = "flat"
    /\ LET l == loanLoc
           month == l.month + 1
           balance == l.principal - l.principal_per_month * month
           row == [month |-> month,
                   emi |-> Cents(l.emi),
                   principal |-> Cents(l.principal_per_month),
                   interest |-> Cents(l.interest_per_month),
                   balance |-> Cents(Max(balance, 0)),
                   prepayment |-> 0]
       IN  /\ loanLoc' = [l EXCEPT !.month = month, !.balance = balance,
                                   !.schedule = Append(@, row)]
           /\ loanPc' = IF month = l.months THEN "assemble" ELSE "flat"
    /\ UNCHANGED <<loanIn, loanOut, mortVars, gpaVars, ciVars, attVars, sweepVars, bmiVars, unitVars, curVars, clockVars, detailVars, histVars, ageVars>>

----------------------------------------------------------------------------
(* calculate_yearly_summary, calculate_break_even                          *)

RECURSIVE SumField(_, _, _, _)
\* the sum of field f over rows lo..hi of the schedule
SumField(schedule, f, lo, hi) ==
    IF lo > hi THEN 0 ELSE schedule[lo][f] + SumField(schedule, f, lo + 1, hi)

\* a loop that closes a year on every twelfth row only
YearEndsOnTwelfth(i, n) == i % 12 = 0

\* whether the year's entry is appended after row i of n rows
YearEnds(i, n) == i % 12 = 0 \/ i = n

\* the accumulator of calculate_yearly_summary at the start of a year
NewYear(year) == [year |-> year, principal |-> 0, interest |-> 0, total_paid |-> 0]

RECURSIVE YearlyFrom(_, _, _)
\* the loop of calculate_yearly_summary from row i on, with the accumulator
\* current_year: the entries it appends.  Rows carry cents, and the sum of at
\* most twelve cent amounts rounded to 2 places is that sum
YearlyFrom(schedule, i, current_year) ==
    IF i > Len(schedule) THEN <<>>
    ELSE LET month_data == schedule[i]
             year == [current_year EXCEPT
                         !.principal = @ + month_data.principal,
                         !.interest = @ + month_data.interest,
                         !.total_paid = @ + month_data.emi]
         IN  IF YearEnds(i, Len(schedule))
             THEN <<[year |-> year.year,
                     principal_paid |-> year.principal,
                     interest_paid |-> year.interest,
                     total_paid |-> year.total_paid,
                     ending_balance |-> month_data.balance]>>
                  \o YearlyFrom(schedule, i + 1, NewYear(year.year + 1))
             ELSE YearlyFrom(schedule, i + 1, year)

\* calculate_yearly_summary(schedule)
calculate_yearly_summary(schedule) == YearlyFrom(schedule, 1, NewYear(1))

RECURSIVE BreakEvenFrom(_, _, _, _, _, _, _)
\* the loop of calculate_break_even from `month` on: the month it breaks at, 0 for None
BreakEvenFrom(month, months, balance, monthly_rate, emi, cum_p, cum_i) ==
    IF month > months THEN 0
    ELSE LET interest == DMul(balance, monthly_rate)
             principal_payment == emi - interest
             cp == cum_p + principal_payment
             ci == cum_i + interest
         IN  IF cp > ci THEN month
             ELSE \* the running values are computed once and passed on
                  CHOOSE found \in
                      {BreakEvenFrom(month + 1, months, b, monthly_rate, emi, p, i) :
                          b \in {balance - principal_payment},
                          p \in {cp}, i \in {ci}} : TRUE

\* calculate_break_even(...)['break_even_month']: from principal, rate and
\* term alone, with the EMI not rounded
BreakEvenMonth(principal, annual_rate, months) ==
    LET monthly_rate == DDivN(annual_rate, 12 * 100)
        emi == IF monthly_rate = 0
               THEN DDivN(principal, months)
               ELSE LET pw == DPow(SCALE + monthly_rate, months)
                    IN  DDiv(DMul(DMul(principal, monthly_rate), pw), pw - SCALE)
        found == BreakEvenFrom(1, months, principal, monthly_rate, emi, 0, 0)
    IN  IF found # 0 THEN found ELSE months

----------------------------------------------------------------------------
(* calculate_loan: the result                                              *)

\* the dictionary calculate_reducing_balance_loan returns (money in cents)
ReducingResult(l) ==
    [loan_type |-> "Reducing Balance",
     emi |-> Cents(l.emi),
     monthly_payment |-> Cents(l.emi),
     total_interest |-> Cents(l.total_interest_paid),
     total_payment |-> Cents(l.emi * Len(l.schedule)),
     principal |-> Cents(l.principal),
     duration_months |-> l.months,
     actual_months_to_payoff |-> Len(l.schedule),
     amortization_schedule |-> l.schedule,
     yearly_summary |-> calculate_yearly_summary(l.schedule),
     break_even_month |-> BreakEvenMonth(l.principal, l.annual_rate, l.months)]

\* the dictionary calculate_flat_rate_loan returns (money in cents)
FlatResult(l) ==
    [loan_type |-> "Flat Rate",
     emi |-> Cents(l.emi),
     monthly_payment |-> Cents(l.emi),
     total_interest |-> Cents(l.total_interest),
     total_payment |-> Cents(l.total_payment),
     principal |-> Cents(l.principal),
     duration_months |-> l.months,
     actual_months_to_payoff |-> l.months,
     amortization_schedule |-> l.schedule,
     yearly_summary |-> calculate_yearly_summary(l.schedule)]

\* the simple format returned when detailed is False
SimpleResult(r) ==
    [emi |-> r.emi, total_interest |-> r.total_interest,
     total_payment |-> r.total_payment, principal |-> r.principal]

\* the end of the method and of calculate_loan: assemble and return
LoanReturn ==
    /\ loanPc = "assemble"
    /\ LET result == IF IsFlat(loanIn) THEN FlatResult(loanLoc)
                     ELSE ReducingResult(loanLoc)
       IN  loanOut' = [kind |-> "returned",
                       value |-> IF loanIn.detailed THEN result
                                 ELSE SimpleResult(result)]
    /\ loanPc' = "returned"
    /\ UNCHANGED <<loanIn, loanLoc, mortVars, gpaVars, ciVars, attVars, sweepVars, bmiVars, unitVars, curVars, clockVars, detailVars, histVars, ageVars>>

----------------------------------------------------------------------------
(* The loan calculator                                                     *)

\* a call of calculate_loan with arguments drawn from `inputs`
LoanNext == LoanCall \/ LoanPeriod \/ FlatPeriod \/ LoanReturn

\* the rates of a caller that asks for the same loan at a higher rate
SweepRates == {0, 12, 29, 30, MAX_RATE}

\* loans that pass validation, without prepayment
SweepInputs ==
    [amount : {1, 50}, rate : SweepRates, duration : {75, 100},
     loan_type : {"reducing", "flat"}, prepayment : {0},
     prepayment_month : {0}, detailed : BOOLEAN]

\* after a call has returned: calculate_loan is called again with the same
\* arguments but a higher rate
LoanAgain ==
    /\ loanPc = "returned"
    /\ loanPrev = Idle
    /\ \E r \in SweepRates :
          /\ r > loanIn.rate
          /\ loanIn' = [loanIn EXCEPT !.rate = r]
    /\ loanPrev' = [kind |-> "call", in |-> loanIn, out |-> loanOut]
    /\ loanPc' = "call"
    /\ loanLoc' = NoLocals
    /\ loanOut' = Pending
    /\ UNCHANGED <<mortVars, gpaVars, ciVars, attVars, bmiVars, unitVars, curVars, clockVars, detailVars, histVars, ageVars>>

\* after a call with detailed=False has returned: calculate_loan is called
\* again with the same arguments and detailed=True
LoanDetailedAgain ==
    /\ loanPc = "returned"
    /\ loanPrev = Idle
    /\ ~loanIn.detailed
    /\ loanIn' = [loanIn EXCEPT !.detailed = TRUE]
    /\ loanPrev' = [kind |-> "call", in |-> loanIn, out |-> loanOut]
    /\ loanPc' = "call"
    /\ loanLoc' = NoLocals
    /\ loanOut' = Pending
    /\ UNCHANGED <<mortVars, gpaVars, ciVars, attVars, bmiVars, unitVars, curVars, clockVars, detailVars, histVars, ageVars>>


----------------------------------------------------------------------------
(* Properties of the loan calculator                                      *)

LoanReturned == loanPc = "returned"

\* a returned detailed result: the ledger is part of it
LoanDetailed == LoanReturned /\ loanIn.detailed

LoanLedger == loanOut.value.amortization_schedule

LastRow(schedule) == schedule[Len(schedule)]

\* the sum of field f over all rows
Total(schedule, f) == SumField(schedule, f, 1, Len(schedule))

\* whether the prepayment was applied to some row of the ledger
PrepaymentApplied ==
    \E i \in 1..Len(LoanLedger) : IsPrepaymentMonth(loanIn, LoanLedger[i].month)

\* rounding allowance for a sum over the rows, in cents: one cent per row
Epsilon(schedule) == Len(schedule)

\* C1: for a reducing-balance ledger that reaches full payoff
\* (its last row reports balance 0), the rows' principal portions plus the
\* rows' prepayment amounts add up to the loan principal, within one cent per
\* row.
C1_Conservation ==
    (LoanDetailed /\ ~IsFlat(loanIn) /\ LastRow(LoanLedger).balance = 0)
    => Abs(Total(LoanLedger, "principal") + Total(LoanLedger, "prepayment")
           - loanOut.value.principal) <= Epsilon(LoanLedger)

\* C2: in every row of a generated ledger, reducing or flat, the
\* reported principal plus the reported interest is exactly the reported
\* payment ('emi').
C2_RowSplitsPayment ==
    LoanDetailed =>
        \A i \in 1..Len(LoanLedger) :
            LoanLedger[i].principal + LoanLedger[i].interest = LoanLedger[i].emi

\* C3: a reducing-balance loan without prepayment has exactly
\* duration * 12 rows and its last row reports balance 0.00.
C3_FullTermPaidOff ==
    (LoanDetailed /\ ~IsFlat(loanIn) /\ ~PrepaymentApplied)
    => /\ 100 * Len(LoanLedger) = 12 * loanIn.duration
       /\ LastRow(LoanLedger).balance = 0

\* the EMI of the loan as first computed, in cents
OriginalEmi ==
    Cents(ReducingEmi(Dec(loanIn.amount), MonthlyRate(Dec(loanIn.rate)),
                      MonthsOf(loanIn.duration)))

\* C4: a prepayment does not re-amortize the loan.  In the ledger of a
\* reducing-balance loan every row other than the prepayment month's reports
\* the EMI computed from the initial principal, rate and term; while the
\* ledger is built the scheduled payment stays that EMI; and the ledger ends
\* after no more periods than the nominal term has months.
C4_NoReamortization ==
    /\ (loanPc \in {"ledger", "assemble"} /\ ~IsFlat(loanIn))
       => /\ Cents(loanLoc.emi) = OriginalEmi
          /\ Len(loanLoc.schedule) <= MonthsOf(loanIn.duration)
    /\ (LoanDetailed /\ ~IsFlat(loanIn))
       => /\ \A i \in 1..Len(LoanLedger) :
                ~IsPrepaymentMonth(loanIn, LoanLedger[i].month)
                => LoanLedger[i].emi = OriginalEmi
          /\ Len(LoanLedger) <= MonthsOf(loanIn.duration)
          /\ loanOut.value.actual_months_to_payoff <= loanOut.value.duration_months

\* C4's case: a prepayment was applied, rows follow it, and the loan is paid
\* off before the nominal term
C4_Witness ==
    /\ LoanDetailed /\ ~IsFlat(loanIn)
    /\ PrepaymentApplied
    /\ Len(LoanLedger) > loanIn.prepayment_month
    /\ Len(LoanLedger) < MonthsOf(loanIn.duration)

RECURSIVE LedgerBreakEvenFrom(_, _, _, _)
\* the first row from i on at which the cumulative principal of the ledger
\* exceeds its cumulative interest, 0 when there is none
LedgerBreakEvenFrom(schedule, i, cum_p, cum_i) ==
    IF i > Len(schedule) THEN 0
    ELSE LET cp == cum_p + schedule[i].principal
             ci == cum_i + schedule[i].interest
         IN  IF cp > ci THEN i ELSE LedgerBreakEvenFrom(schedule, i + 1, cp, ci)

\* the break-even period derived from the ledger; the nominal term when the
\* ledger has no such period
LedgerBreakEven(schedule, months) ==
    LET found == LedgerBreakEvenFrom(schedule, 1, 0, 0)
    IN  IF found # 0 THEN found ELSE months

\* C5: the reported break_even_month of a reducing-balance loan
\* is the first period of its ledger at which cumulative principal exceeds
\* cumulative interest (the nominal term when there is none).
C5_BreakEvenFromLedger ==
    (LoanDetailed /\ ~IsFlat(loanIn))
    => loanOut.value.break_even_month
         = LedgerBreakEven(LoanLedger, loanOut.value.duration_months)

\* the inputs C6 names: amount <= 0 or > 100,000,000, rate < 0 or > 50,
\* duration <= 0 or > 40 years
C6_OutOfDomain ==
    \/ loanIn.amount <= 0 \/ loanIn.amount > 100000000
    \/ loanIn.rate < 0 \/ loanIn.rate > 50
    \/ loanIn.duration <= 0 \/ loanIn.duration > 40 * 100

\* C6: an out-of-domain input is rejected before any computation: the call
\* never leaves its entry except by raising LoanCalculationError with a
\* message, no local is computed and nothing is returned.
C6_RejectsOutOfDomain ==
    C6_OutOfDomain
    => /\ loanPc \in {"call", "raised"}
       /\ loanLoc = NoLocals
       /\ loanPc # "returned"
       /\ loanPc = "raised"
          => /\ loanOut.kind = "raised"
             /\ loanOut.exc = "LoanCalculationError"
             /\ loanOut.message # ""

\* C6's case: an out-of-domain input was rejected
C6_Witness ==
    /\ C6_OutOfDomain
    /\ loanPc = "raised"
    /\ loanOut.exc = "LoanCalculationError"

----------------------------------------------------------------------------
(* calculate_mortgage                                                      *)

\* home_price and down_payment in whole currency units, interest_rate in
\* percent per year, loan_term in years; the other costs keep their default 0
MortgageInputs ==
    [home_price : {-20, 0, 20}, down_payment : {-2, 0, 2, 20, 30},
     interest_rate : {-12, 0, 6}, loan_term : {-1, 0, 1, 2, MAX_DURATION + 1}]

NoMortgageLocals ==
    [principal |-> 0, monthly_rate |-> 0, months |-> 0, monthly_payment |-> 0,
     balance |-> 0, month |-> 0, total_interest |-> 0, schedule |-> <<>>]

\* (1 + monthly_rate) ** months, months of either sign
MortgagePow(monthly_rate, months) ==
    IF months >= 0 THEN DPow(SCALE + monthly_rate, months)
    ELSE DDiv(SCALE, DPow(SCALE + monthly_rate, -months))

\* the exception the computation of monthly_payment ends in, "" when it does not
MortgagePaymentError(principal, monthly_rate, months) ==
    IF months # 0 THEN ""
    ELSE IF monthly_rate = 0
         THEN IF principal = 0 THEN "InvalidOperation" ELSE "DivisionByZero"
    ELSE IF DMul(principal, monthly_rate) = 0 THEN "InvalidOperation"
    ELSE "DivisionByZero"

\* monthly_payment, rounded to cents (months # 0)
MortgagePayment(principal, monthly_rate, months) ==
    IF monthly_rate = 0
    THEN Quantize2(DDivN(principal, months))
    ELSE LET pw == MortgagePow(monthly_rate, months)
         IN  Quantize2(DDiv(DMul(DMul(principal, monthly_rate), pw), pw - SCALE))

\* calculate_mortgage up to its loop; the function checks none of its arguments
MortgageCall ==
    /\ mortPc = "call"
    /\ LET principal == Dec(mortIn.home_price - mortIn.down_payment)
           monthly_rate == MonthlyRate(Dec(mortIn.interest_rate))
           months == mortIn.loan_term * 12
           err == MortgagePaymentError(principal, monthly_rate, months)
           loc == [NoMortgageLocals EXCEPT !.principal = principal,
                      !.monthly_rate = monthly_rate, !.months = months]
       IN  IF mortIn.home_price = 0
           THEN \* down_payment / home_price
                /\ mortPc' = "raised"
                /\ mortOut' = [kind |-> "raised", exc |-> "ZeroDivisionError"]
                /\ UNCHANGED mortLoc
           ELSE IF err # ""
           THEN /\ mortPc' = "raised"
                /\ mortOut' = [kind |-> "raised", exc |-> err]
                /\ mortLoc' = loc
           ELSE /\ mortPc' = IF months >= 1 THEN "ledger" ELSE "assemble"
                /\ mortLoc' = [loc EXCEPT
                      !.monthly_payment =
                          MortgagePayment(principal, monthly_rate, months),
                      !.balance = principal]
                /\ UNCHANGED mortOut
    /\ UNCHANGED <<mortIn, loanVars, gpaVars, ciVars, attVars, sweepVars, bmiVars, unitVars, curVars, clockVars, detailVars, histVars, ageVars>>

\* one pass of the loop over the months; of the rows only schedule[:12] is
\* ever read, so only those are kept
MortgagePeriod ==
    /\ mortPc = "ledger"
    /\ LET l == mortLoc
           month == l.month + 1
           interest_payment == DMul(l.balance, l.monthly_rate)
           principal_payment == l.monthly_payment - interest_payment
           balance == l.balance - principal_payment
           row == [month |-> month,
                   payment |-> Cents(l.monthly_payment),
                   principal |-> Cents(principal_payment),
                   interest |-> Cents(interest_payment),
                   balance |-> Cents(Max(balance, 0))]
       IN  /\ mortLoc' = [l EXCEPT
                 !.month = month,
                 !.balance = balance,
                 !.total_interest = @ + interest_payment,
                 !.schedule = IF month <= 12 THEN Append(@, row) ELSE @]
           /\ mortPc' = IF month = l.months THEN "assemble" ELSE "ledger"
    /\ UNCHANGED <<mortIn, mortOut, loanVars, gpaVars, ciVars, attVars, sweepVars, bmiVars, unitVars, curVars, clockVars, detailVars, histVars, ageVars>>

\* the dictionary returned (money in cents); the fields derived from the
\* other costs and the two percentages are left out
MortgageResult(in, l) ==
    [home_price |-> in.home_price,
     down_payment |-> in.down_payment,
     loan_amount |-> Cents(l.principal),
     interest_rate |-> in.interest_rate,
     loan_term_years |-> in.loan_term,
     monthly_principal_interest |-> Cents(l.monthly_payment),
     total_interest |-> Cents(l.total_interest),
     total_paid |-> Cents(l.monthly_payment * l.months),
     amortization_schedule |-> l.schedule]

MortgageReturn ==
    /\ mortPc = "assemble"
    /\ mortOut' = [kind |-> "returned", value |-> MortgageResult(mortIn, mortLoc)]
    /\ mortPc' = "returned"
    /\ UNCHANGED <<mortIn, mortLoc, loanVars, gpaVars, ciVars, attVars, sweepVars, bmiVars, unitVars, curVars, clockVars, detailVars, histVars, ageVars>>

MortgageNext == MortgageCall \/ MortgagePeriod \/ MortgageReturn

----------------------------------------------------------------------------
(* calculate_gpa (previous_gpa and previous_credits None, detailed False)   *)

MaxCourses == 2

\* letter grades as they are passed in; "a-" is lower case, "E" is in no table
Grades == {"A+", "A", "a-", "B", "F", "E"}

GpaCredits == {0, 3, 4}

GpaScales == {"4.0", "5.0", "10.0", "4"}

GpaCourseLists ==
    UNION {[1..n -> [grade : Grades, credits : GpaCredits]] : n \in 0..MaxCourses}

GpaInputs == [courses : GpaCourseLists, scale : GpaScales]

\* str.upper() on the grades above
Upper(g) == IF g = "a-" THEN "A-" ELSE g

\* grade points in tenths of a point
FiveScale ==
    [g \in {"A+", "A", "A-", "B+", "B", "B-", "C+", "C", "C-", "D+", "D", "D-", "F"} |->
        CASE g \in {"A+", "A"} -> 50
          [] g = "A-" -> 47 [] g = "B+" -> 43 [] g = "B" -> 40 [] g = "B-" -> 37
          [] g = "C+" -> 33 [] g = "C" -> 30 [] g = "C-" -> 27
          [] g = "D+" -> 23 [] g = "D" -> 20 [] g = "D-" -> 17
          [] g = "F" -> 0]

FourScale ==
    [g \in {"A+", "A", "A-", "B+", "B", "B-", "C+", "C", "C-", "D+", "D", "D-", "F"} |->
        CASE g \in {"A+", "A"} -> 40
          [] g = "A-" -> 37 [] g = "B+" -> 33 [] g = "B" -> 30 [] g = "B-" -> 27
          [] g = "C+" -> 23 [] g = "C" -> 20 [] g = "C-" -> 17
          [] g = "D+" -> 13 [] g = "D" -> 10 [] g = "D-" -> 7
          [] g = "F" -> 0]

get_grade_points(scale) == IF scale = "5.0" THEN FiveScale ELSE FourScale

\* the letters of a grade table, in the order the table lists them
GradeLetters ==
    <<"A+", "A", "A-", "B+", "B", "B-", "C+", "C", "C-", "D+", "D", "D-", "F">>

\* gpa is points / credits, points counted in tenths of a grade point
get_letter_grade(points, credits, scale) ==
    LET AtLeast(t) == points >= t * credits
    IN  IF scale = "5.0"
        THEN IF AtLeast(47) THEN "A"
             ELSE IF AtLeast(43) THEN "A-"
             ELSE IF AtLeast(40) THEN "B+"
             ELSE IF AtLeast(37) THEN "B"
             ELSE IF AtLeast(33) THEN "B-"
             ELSE IF AtLeast(30) THEN "C+"
             ELSE IF AtLeast(27) THEN "C"
             ELSE IF AtLeast(20) THEN "D"
             ELSE "F"
        ELSE IF AtLeast(37) THEN "A"
             ELSE IF AtLeast(33) THEN "A-"
             ELSE IF AtLeast(30) THEN "B+"
             ELSE IF AtLeast(27) THEN "B"
             ELSE IF AtLeast(23) THEN "B-"
             ELSE IF AtLeast(20) THEN "C+"
             ELSE IF AtLeast(17) THEN "C"
             ELSE IF AtLeast(10) THEN "D"
             ELSE "F"

\* the message of the first course the loop rejects from position i on, "" if none
RECURSIVE GpaCourseError(_, _, _)
GpaCourseError(courses, grade_points, i) ==
    IF i > Len(courses) THEN ""
    ELSE IF courses[i].credits <= 0 THEN "Credits must be greater than zero."
    ELSE IF Upper(courses[i].grade) \notin DOMAIN grade_points
         THEN "Invalid grade: " \o Upper(courses[i].grade)
                 \o ". Use grades like A+, A, A-, B+, B, etc."
    ELSE GpaCourseError(courses, grade_points, i + 1)

\* total_points (tenths of a point times credits) of the courses from i on
RECURSIVE GpaTotalPoints(_, _, _)
GpaTotalPoints(courses, grade_points, i) ==
    IF i > Len(courses) THEN 0
    ELSE grade_points[Upper(courses[i].grade)] * courses[i].credits
            + GpaTotalPoints(courses, grade_points, i + 1)

RECURSIVE GpaTotalCredits(_, _)
GpaTotalCredits(courses, i) ==
    IF i > Len(courses) THEN 0
    ELSE courses[i].credits + GpaTotalCredits(courses, i + 1)

\* what calculate_gpa(courses, scale) returns or raises; gpa in hundredths
calculate_gpa(in) ==
    LET grade_points == get_grade_points(in.scale)
        err == GpaCourseError(in.courses, grade_points, 1)
        total_points == GpaTotalPoints(in.courses, grade_points, 1)
        total_credits == GpaTotalCredits(in.courses, 1)
    IN  IF in.courses = <<>>
        THEN [kind |-> "raised", exc |-> "GPACalculationError",
              message |-> "Course list cannot be empty."]
        ELSE IF err # ""
        THEN [kind |-> "raised", exc |-> "GPACalculationError", message |-> err]
        ELSE [kind |-> "returned",
              value |-> [gpa |-> MulDivHE(total_points, 10, total_credits),
                         total_credits |-> total_credits,
                         grade |-> get_letter_grade(total_points, total_credits,
                                                    in.scale)]]

GpaCall ==
    /\ gpaOut = Pending
    /\ gpaOut' = calculate_gpa(gpaIn)
    /\ UNCHANGED <<gpaIn, loanVars, mortVars, ciVars, attVars, sweepVars, bmiVars, unitVars, curVars, clockVars, detailVars, histVars, ageVars>>

\* course_details: one entry per course, quality_points in hundredths
GpaCourseDetails(courses, grade_points) ==
    [i \in 1..Len(courses) |->
        [course_name |-> "Unnamed Course",
         grade |-> Upper(courses[i].grade),
         credits |-> courses[i].credits,
         grade_points |-> grade_points[Upper(courses[i].grade)],
         quality_points |->
             10 * grade_points[Upper(courses[i].grade)] * courses[i].credits]]

\* what calculate_gpa(courses, scale, detailed=True) returns or raises. The
\* sections built by the analytics functions are stood for by the names of
\* those functions
calculate_gpa_detailed(in) ==
    LET simple == calculate_gpa(in)
        grade_points == get_grade_points(in.scale)
    IN  IF simple.kind = "raised" THEN simple
        ELSE [kind |-> "returned",
              value |->
                [semester_gpa |->
                    [gpa |-> simple.value.gpa,
                     letter_grade |-> simple.value.grade,
                     credits_earned |-> simple.value.total_credits,
                     quality_points |->
                         10 * GpaTotalPoints(in.courses, grade_points, 1),
                     scale |-> in.scale],
                 course_details |-> GpaCourseDetails(in.courses, grade_points),
                 grade_distribution |-> "calculate_grade_distribution",
                 performance_analysis |-> "analyze_performance",
                 predictions |-> "calculate_gpa_predictions",
                 what_if_scenarios |-> "calculate_what_if_scenarios",
                 recommendations |-> "generate_gpa_recommendations",
                 notes |-> "notes"]]

GpaDetailedCall ==
    /\ gpaDet = Pending
    /\ gpaDet' = calculate_gpa_detailed(gpaIn)
    /\ UNCHANGED <<gpaVars, attDet, loanVars, mortVars, ciVars, attVars, sweepVars, bmiVars, unitVars, curVars, clockVars, histVars, ageVars>>

----------------------------------------------------------------------------
(* calculate_attendance (total_classes_in_semester None, detailed False)    *)

MaxClasses == 6

AttendanceTargets == {-1, 0, 50, 58, 75, 90, 100, 101}

\* small class counts, and 29 of 50 classes
AttendanceInputs ==
    [attended : -1..MaxClasses \cup {29}, total : 0..MaxClasses \cup {50},
     target : AttendanceTargets]

\* the message of the check that rejects the arguments, "" when all pass
AttendanceValidationMessage(in) ==
    IF in.attended < 0 THEN "Attended classes cannot be negative."
    ELSE IF in.total <= 0 THEN "Total classes must be greater than zero."
    ELSE IF in.attended > in.total
         THEN "Attended classes cannot exceed total classes."
    ELSE IF in.target < 0 \/ in.target > 100
         THEN "Target percentage must be between 0 and 100."
    ELSE ""

\* int(x / y) for x >= 0 and y > 0
IntQuotient(x, y) == x \div y

\* A Python float that is not 0 is m * 2^-(52 + s), m a 53-bit mantissa kept
\* as four limbs <<h, a, b, c>> = h*2^39 + a*2^26 + b*2^13 + c.
LIMB == 2 ^ 13

\* the limbs with the carries moved up
Normalise(h, a, b, c) ==
    LET b1 == b + (c \div LIMB)
        a1 == a + (b1 \div LIMB)
    IN  <<h + (a1 \div LIMB), a1 % LIMB, b1 % LIMB, c % LIMB>>

\* attended / total for 0 < attended <= total, rounded half to even to 53 bits
FloatQuotient(attended, total) ==
    LET s  == CHOOSE k \in 0..20 : total <= attended * 2^k /\ attended * 2^k < 2 * total
        r0 == attended * 2^s - total
        r1 == (r0 * LIMB) % total
        r2 == (r1 * LIMB) % total
        r3 == (r2 * LIMB) % total
        r4 == (r3 * LIMB) % total
        d4 == (r3 * LIMB) \div total
        up == IF 2 * r4 > total \/ (2 * r4 = total /\ d4 % 2 = 1) THEN 1 ELSE 0
    IN  [m |-> Normalise(LIMB + ((r0 * LIMB) \div total), (r1 * LIMB) \div total,
                         (r2 * LIMB) \div total, d4 + up),
         s |-> s]

\* x * 100 for a float x, rounded half to even to 53 bits
TimesHundred(x) ==
    LET P    == Normalise(x.m[1] * 100, x.m[2] * 100, x.m[3] * 100, x.m[4] * 100)
        k    == IF P[1] >= 2^20 THEN 7 ELSE 6
        rem  == P[4] % 2^k
        kept == P[4] \div 2^k
        up   == IF 2 * rem > 2^k \/ (2 * rem = 2^k /\ kept % 2 = 1) THEN 1 ELSE 0
    IN  [m |-> Normalise(P[1], P[2], P[3], (kept + up) * 2^k), s |-> x.s]

\* current_percentage = (attended / total) * 100, for 0 <= attended <= total
CurrentPercentage(in) ==
    IF in.attended = 0 THEN [m |-> <<0, 0, 0, 0>>, s |-> 0]
    ELSE TimesHundred(FloatQuotient(in.attended, in.total))

\* the sign of x - t for a float x >= 0 and a whole number t
CompareWhole(x, t) ==
    LET rest == x.m[2] # 0 \/ x.m[3] # 0 \/ x.m[4] # 0
    IN  IF t <= 0
        THEN IF t = 0 /\ x.m[1] = 0 /\ ~rest THEN 0 ELSE 1
        ELSE IF x.m[1] < t * 2^x.s * LIMB THEN -1
        ELSE IF x.m[1] > t * 2^x.s * LIMB \/ rest THEN 1
        ELSE 0

\* percentage >= target + offset
PercentageAtLeast(in, offset) ==
    CompareWhole(CurrentPercentage(in), in.target + offset) >= 0

\* current_percentage < target
BelowTarget(in) == CompareWhole(CurrentPercentage(in), in.target) < 0

\* current_percentage > target
AboveTarget(in) == CompareWhole(CurrentPercentage(in), in.target) > 0

get_attendance_status(in) ==
    IF PercentageAtLeast(in, 10) THEN "Excellent"
    ELSE IF PercentageAtLeast(in, 0) THEN "Good"
    ELSE IF PercentageAtLeast(in, -5) THEN "Warning"
    ELSE IF PercentageAtLeast(in, -10) THEN "Critical"
    ELSE "Danger"

\* classes_needed of a call with valid arguments and target < 100, or with
\* attendance not below target
ClassesNeeded(in) ==
    IF BelowTarget(in)
    THEN Max(0, IntQuotient(in.target * in.total - 100 * in.attended,
                            100 - in.target) + 1)
    ELSE 0

\* can_miss of a call with valid arguments and target > 0, or with attendance
\* not above target
CanMiss(in) ==
    IF AboveTarget(in)
    THEN IntQuotient(100 * in.attended - in.target * in.total, in.target)
    ELSE 0

\* a percentage that falls as attendance rises: the share of classes missed
AbsentPercentage(in) == MulDivHE(in.total - in.attended, 10000, in.total)

\* round(current_percentage, 2), in hundredths of a percent
RoundedPercentage(in) == MulDivHE(in.attended, 10000, in.total)

\* what calculate_attendance(attended, total, target) returns or raises;
\* percentage in hundredths of a percent
calculate_attendance(in) ==
    IF AttendanceValidationMessage(in) # ""
    THEN [kind |-> "raised", exc |-> "AttendanceCalculationError",
          message |-> AttendanceValidationMessage(in)]
    ELSE IF \/ BelowTarget(in) /\ in.target = 100
            \/ AboveTarget(in) /\ in.target = 0
    THEN [kind |-> "raised", exc |-> "ZeroDivisionError", message |-> ""]
    ELSE [kind |-> "returned",
          value |-> [percentage |-> RoundedPercentage(in),
                     attended |-> in.attended,
                     total |-> in.total,
                     target |-> in.target,
                     classes_needed |-> ClassesNeeded(in),
                     can_miss |-> Max(0, CanMiss(in)),
                     status |-> get_attendance_status(in)]]

AttendanceCall ==
    /\ attOut = Pending
    /\ attOut' = calculate_attendance(attIn)
    /\ UNCHANGED <<attIn, loanVars, mortVars, gpaVars, ciVars, sweepVars, bmiVars, unitVars, curVars, clockVars, detailVars, histVars, ageVars>>

\* the description that get_attendance_status gives with a category
StatusDescription(category) ==
    CASE category = "Excellent" -> "Well above target, great attendance!"
      [] category = "Good" -> "Meeting attendance requirements"
      [] category = "Warning" -> "Close to minimum requirement"
      [] category = "Critical" -> "Below requirement, immediate action needed"
      [] category = "Danger" -> "Significantly below requirement"

StatusColor(category) ==
    CASE category = "Excellent" -> "#2ecc71"
      [] category = "Good" -> "#27ae60"
      [] category = "Warning" -> "#f39c12"
      [] category = "Critical" -> "#e67e22"
      [] category = "Danger" -> "#e74c3c"

\* what calculate_attendance(attended, total, target, detailed=True) returns
\* or raises; percentages in hundredths, attendance_rate in ten-thousandths.
\* The sections built by the analytics functions are stood for by the names
\* of those functions
calculate_attendance_detailed(in) ==
    LET simple == calculate_attendance(in)
    IN  IF simple.kind = "raised" THEN simple
        ELSE [kind |-> "returned",
              value |->
                [current_status |->
                    [percentage |-> RoundedPercentage(in),
                     attended |-> in.attended,
                     missed |-> in.total - in.attended,
                     total |-> in.total,
                     attendance_rate |-> MulDivHE(in.attended, 10000, in.total),
                     status |-> get_attendance_status(in),
                     status_description |->
                         StatusDescription(get_attendance_status(in)),
                     color |-> StatusColor(get_attendance_status(in))],
                 target_analysis |->
                    [target_percentage |-> in.target,
                     difference_from_target |->
                         MulDivHE(10000 * in.attended
                                     - 100 * in.target * in.total, 1, in.total),
                     classes_needed_to_reach_target |-> ClassesNeeded(in),
                     classes_can_miss_safely |-> Max(0, CanMiss(in)),
                     is_on_track |-> PercentageAtLeast(in, 0)],
                 predictions |-> "calculate_predictions",
                 scenarios |-> "calculate_scenarios",
                 semester_projection |-> "None",
                 statistics |-> "statistics",
                 recommendations |-> "generate_attendance_recommendations",
                 notes |-> "notes"]]

AttendanceDetailedCall ==
    /\ attDet = Pending
    /\ attDet' = calculate_attendance_detailed(attIn)
    /\ UNCHANGED <<attVars, gpaDet, loanVars, mortVars, gpaVars, ciVars, sweepVars, bmiVars, unitVars, curVars, clockVars, histVars, ageVars>>

----------------------------------------------------------------------------
(* calculate_compound_interest (inflation_rate 0).  A float of the result   *)
(* is a record: inf tells float('inf') from a finite value v.  The fields   *)
(* built by generate_breakdown, calculate_real_returns,                     *)
(* calculate_investment_metrics, compare_frequencies and                    *)
(* generate_investment_recommendations are left out of the result.         *)

\* principal and monthly_contribution in whole currency units, rate in percent
\* per year, time in years; frequency 3 is none of the accepted ones
CompoundInputs ==
    [principal : {-1, 0, 10}, rate : {-1, 0, 12, 48}, time : {0, 1, 2},
     frequency : {1, 3, 12}, monthly_contribution : {-1, 0, 1},
     contribution_timing : {"end", "start"}, detailed : BOOLEAN]

Finite(v) == [inf |-> FALSE, v |-> v]

Infinity == [inf |-> TRUE, v |-> 0]

\* round(x, places) of a finite float x, counted in units of 10^-places
PyRound(x, places) == Finite(MulDivHE(x, 1, SCALE \div (10 ^ places)))

\* 2 * (z + z^3/3 + z^5/5 + ...) from the term z^k on, zk being z^k
RECURSIVE AtanhSeries(_, _, _)
AtanhSeries(z, zk, k) ==
    IF zk = 0 THEN 0
    ELSE 2 * DDivN(zk, k) + AtanhSeries(z, DMul(DMul(zk, z), z), k + 2)

\* math.log(x) for x > 0
Log(x) ==
    LET z == DDiv(x - SCALE, x + SCALE)
    IN  AtanhSeries(z, z, 1)

CompoundValidationMessage(in) ==
    IF in.principal < 0 THEN "Principal amount cannot be negative."
    ELSE IF in.rate < 0 THEN "Interest rate cannot be negative."
    ELSE IF in.time <= 0 THEN "Time period must be greater than zero."
    ELSE IF in.frequency \notin {1, 2, 4, 12, 52, 365}
         THEN "Frequency must be 1, 2, 4, 12, 52, or 365."
    ELSE IF in.monthly_contribution < 0
         THEN "Monthly contribution cannot be negative."
    ELSE ""

\* r / n
PeriodicRate(rate, frequency) == DDivN(DDivN(Dec(rate), 100), frequency)

calculate_doubling_time(rate, frequency) ==
    IF rate <= 0 THEN Infinity
    ELSE Finite(DDiv(Log(2 * SCALE),
                     frequency * Log(SCALE + PeriodicRate(rate, frequency))))

\* round(x, 2) of a float that may be float('inf')
RoundFloat2(x) == IF x.inf THEN Infinity ELSE PyRound(x.v, 2)

get_frequency_name(frequency) ==
    CASE frequency = 1 -> "Annually"
      [] frequency = 2 -> "Semi-annually"
      [] frequency = 4 -> "Quarterly"
      [] frequency = 12 -> "Monthly"
      [] frequency = 52 -> "Weekly"
      [] frequency = 365 -> "Daily"

\* fv_contributions for monthly_contribution > 0 and a periodic rate # 0
FvContributions(in) ==
    LET rn == PeriodicRate(in.rate, in.frequency)
        contribution_per_period == DDivN(Dec(in.monthly_contribution * 12), in.frequency)
        annuity == DDiv(DPow(SCALE + rn, in.frequency * in.time) - SCALE, rn)
    IN  IF in.contribution_timing = "start"
        THEN DMul(DMul(contribution_per_period, annuity), SCALE + rn)
        ELSE DMul(contribution_per_period, annuity)

\* what calculate_compound_interest returns or raises.  Rounded amounts count
\* cents, percentages and years hundredths, effective_annual_rate units of 10^-4
calculate_compound_interest(in) ==
    LET rn == PeriodicRate(in.rate, in.frequency)
        fv_principal == DMul(Dec(in.principal),
                             DPow(SCALE + rn, in.frequency * in.time))
        contributes == in.monthly_contribution > 0
        fv_contributions == IF contributes THEN FvContributions(in) ELSE 0
        total_contributions ==
            IF contributes THEN Dec(in.monthly_contribution * 12 * in.time) ELSE 0
        total_amount == fv_principal + fv_contributions
        compound_interest == total_amount - Dec(in.principal) - total_contributions
        effective_rate == (DPow(SCALE + rn, in.frequency) - SCALE) * 100
        total_invested == Dec(in.principal) + total_contributions
    IN  IF CompoundValidationMessage(in) # ""
        THEN [kind |-> "raised", exc |-> "CompoundInterestCalculationError",
              message |-> CompoundValidationMessage(in)]
        ELSE IF contributes /\ rn = 0
        THEN [kind |-> "raised", exc |-> "ZeroDivisionError", message |-> ""]
        ELSE IF ~in.detailed
        THEN [kind |-> "returned",
              value |-> [principal |-> in.principal,
                         rate |-> in.rate,
                         time |-> in.time,
                         frequency |-> in.frequency,
                         compound_interest |-> PyRound(compound_interest, 2),
                         total_amount |-> PyRound(total_amount, 2)]]
        ELSE [kind |-> "returned",
              value |->
                [investment_summary |->
                    [initial_principal |-> PyRound(Dec(in.principal), 2),
                     total_contributions |-> PyRound(total_contributions, 2),
                     total_invested |-> PyRound(total_invested, 2),
                     compound_interest_earned |-> PyRound(compound_interest, 2),
                     final_amount |-> PyRound(total_amount, 2),
                     total_return_percentage |->
                        IF total_invested > 0
                        THEN PyRound(DDiv(compound_interest, total_invested) * 100, 2)
                        ELSE Finite(0)],
                 interest_details |->
                    [annual_rate |-> in.rate,
                     effective_annual_rate |-> PyRound(effective_rate, 4),
                     compounding_frequency |-> get_frequency_name(in.frequency),
                     compounds_per_year |-> in.frequency,
                     total_compounds |-> in.frequency * in.time],
                 contribution_details |->
                    [monthly_contribution |-> in.monthly_contribution,
                     contribution_timing |-> in.contribution_timing,
                     total_contributions |-> PyRound(total_contributions, 2),
                     contribution_growth |->
                        IF contributes
                        THEN PyRound(fv_contributions - total_contributions, 2)
                        ELSE Finite(0)],
                 time_analysis |->
                    [investment_period_years |-> in.time,
                     investment_period_months |-> in.time * 12,
                     doubling_time_years |->
                        RoundFloat2(calculate_doubling_time(in.rate, in.frequency)),
                     \* <<>> stands for None
                     rule_of_72_estimate |->
                        IF in.rate > 0
                        THEN <<PyRound(DDivN(Dec(72), in.rate), 2)>>
                        ELSE <<>>]]]

CompoundCall ==
    /\ ciOut = Pending
    /\ ciOut' = calculate_compound_interest(ciIn)
    /\ UNCHANGED <<ciIn, loanVars, mortVars, gpaVars, attVars, sweepVars, bmiVars, unitVars, curVars, clockVars, detailVars, histVars, ageVars>>

----------------------------------------------------------------------------
(* get_bmi_category                                                        *)

\* the thresholds of the adult categories, in hundredths of a BMI point
BmiThresholds == {1600, 1700, 1850, 2500, 3000, 3500, 4000}

\* bmi, in hundredths (calculate_bmi passes round(bmi, 2)): each threshold,
\* its neighbours, and the ends of the range
BmiValues ==
    {0, 10000} \cup {t + d : t \in BmiThresholds, d \in {-50, -1, 0, 1, 50}}

\* age; 0 stands for None and for 0 (both falsy)
BmiAges == {-5, 0, 10, 19, 20, 45}

BmiInputs == [bmi : BmiValues, age : BmiAges]

\* categories whose ranges include their upper threshold instead of the lower
get_bmi_category_upper_inclusive(in) ==
    LET bmi == in.bmi
    IN  IF in.age # 0 /\ in.age < 20 THEN "See pediatric BMI chart"
        ELSE IF bmi <= 1600 THEN "Severe Underweight"
        ELSE IF bmi <= 1700 THEN "Moderate Underweight"
        ELSE IF bmi <= 1850 THEN "Mild Underweight"
        ELSE IF bmi <= 2500 THEN "Normal Weight"
        ELSE IF bmi <= 3000 THEN "Overweight"
        ELSE IF bmi <= 3500 THEN "Obese Class I"
        ELSE IF bmi <= 4000 THEN "Obese Class II"
        ELSE "Obese Class III"

\* get_bmi_category(bmi, age)['category']
get_bmi_category(in) ==
    LET bmi == in.bmi
    IN  IF in.age # 0 /\ in.age < 20 THEN "See pediatric BMI chart"
        ELSE IF bmi < 1600 THEN "Severe Underweight"
        ELSE IF 1600 <= bmi /\ bmi < 1700 THEN "Moderate Underweight"
        ELSE IF 1700 <= bmi /\ bmi < 1850 THEN "Mild Underweight"
        ELSE IF 1850 <= bmi /\ bmi < 2500 THEN "Normal Weight"
        ELSE IF 2500 <= bmi /\ bmi < 3000 THEN "Overweight"
        ELSE IF 3000 <= bmi /\ bmi < 3500 THEN "Obese Class I"
        ELSE IF 3500 <= bmi /\ bmi < 4000 THEN "Obese Class II"
        ELSE "Obese Class III"

\* the health_risk that goes with a category
BmiHealthRisk(category) ==
    CASE category = "See pediatric BMI chart" -> "Consult pediatrician"
      [] category = "Severe Underweight" ->
            "High risk - malnutrition, weakened immunity"
      [] category = "Moderate Underweight" ->
            "Moderate risk - nutritional deficiency"
      [] category = "Mild Underweight" -> "Low to moderate risk"
      [] category = "Normal Weight" -> "Low risk - optimal health range"
      [] category = "Overweight" -> "Moderate risk - increased disease risk"
      [] category = "Obese Class I" -> "High risk - cardiovascular, diabetes"
      [] category = "Obese Class II" ->
            "Very high risk - serious health complications"
      [] category = "Obese Class III" ->
            "Extremely high risk - life-threatening conditions"

BmiCategoryCall ==
    /\ bmiOut = Pending
    /\ bmiOut' = [kind |-> "returned",
                  value |-> [category |-> get_bmi_category(bmiIn),
                             health_risk |->
                                 BmiHealthRisk(get_bmi_category(bmiIn))]]
    /\ UNCHANGED <<bmiIn, loanVars, mortVars, gpaVars, ciVars, attVars, sweepVars, unitVars, curVars, clockVars, detailVars, histVars, ageVars>>

----------------------------------------------------------------------------
(* unit_converter: convert_unit, convert_temperature                       *)

\* values and conversion factors are counted in millionths
MICRO == 10 ^ 6

\* the factors to the base unit of the units drawn, in millionths
CONVERSIONS ==
    [length |-> [meter |-> 1000000, yard |-> 914400, foot |-> 304800,
                 inch |-> 25400],
     weight |-> [kilogram |-> 1000000, pound |-> 453592, stone |-> 6350290],
     volume |-> [liter |-> 1000000, gallon_us |-> 3785410, quart |-> 946353,
                 cup |-> 236588],
     area |-> [square_meter |-> 1000000, square_yard |-> 836127,
               square_foot |-> 92903],
     speed |-> [meter_per_second |-> 1000000, kilometer_per_hour |-> 277778,
                mile_per_hour |-> 447040, knot |-> 514444]]

TemperatureUnits == {"celsius", "fahrenheit", "kelvin"}

UnitCategories == DOMAIN CONVERSIONS \cup {"temperature"}

\* the units drawn for a category: its own, and one it does not have
UnitsDrawn(category) ==
    (IF category \in DOMAIN CONVERSIONS THEN DOMAIN CONVERSIONS[category]
     ELSE IF category = "temperature" THEN TemperatureUnits
     ELSE {"meter"}) \cup {"furlong"}

\* value, in millionths
UnitValues == {-1000000, 0, 1000000, 3000000, 50000000}

UnitInputs ==
    UNION {[value : UnitValues, from_unit : UnitsDrawn(c),
            to_unit : UnitsDrawn(c), category : {c}] :
              c \in UnitCategories \cup {"time"}}

\* a*b/c + k rounded half to even, for naturals a, b, c > 0 and an integer k
RoundHEPlus(a, b, c, k) ==
    LET qr == MulDivQR(a, b, c)
        m  == qr[1] + k
        up == 2 * qr[2] > c \/ (2 * qr[2] = c /\ m % 2 = 1)
    IN  m + (IF up THEN 1 ELSE 0)

\* n*b/c + k rounded half to even, for integers n, k and naturals b, c > 0
RoundSigned(n, b, c, k) ==
    IF n >= 0 THEN RoundHEPlus(n, b, c, k) ELSE -RoundHEPlus(-n, b, c, -k)

\* the value in Celsius, in millionths, as <<n, b, d>> for n * b / d
ToCelsius(value, from_unit) ==
    IF from_unit = "celsius" THEN <<value, 1, 1>>
    ELSE IF from_unit = "fahrenheit" THEN <<value - 32 * MICRO, 5, 9>>
    ELSE <<value - 273150000, 1, 1>>

\* round(result, 2) of the Celsius fraction c converted to to_unit, in millionths
FromCelsius(c, to_unit) ==
    10000 * (IF to_unit = "celsius"
             THEN RoundSigned(c[1], c[2], c[3] * 10000, 0)
             ELSE IF to_unit = "fahrenheit"
             THEN RoundSigned(c[1], c[2] * 9, c[3] * 50000, 3200)
             ELSE RoundSigned(c[1], c[2], c[3] * 10000, 27315))

\* the dictionary of a conversion; 'formula' by the values it is formatted from
ConversionResult(in, converted) ==
    [original_value |-> in.value,
     converted_value |-> converted,
     from_unit |-> in.from_unit,
     to_unit |-> in.to_unit,
     category |-> in.category,
     formula |-> <<in.value, in.from_unit, converted, in.to_unit>>]

convert_temperature(in) ==
    IF in.from_unit \notin TemperatureUnits
    THEN [error |-> "Temperature unit " \o in.from_unit \o " not supported"]
    ELSE IF in.to_unit \notin TemperatureUnits
    THEN [error |-> "Temperature unit " \o in.to_unit \o " not supported"]
    ELSE ConversionResult(in, FromCelsius(ToCelsius(in.value, in.from_unit),
                                          in.to_unit))

\* round(value * units[from_unit] / units[to_unit], 6), in millionths: the
\* exact quotient rounded, which the float quotient's rounding equals unless
\* the exact quotient lies within the float's error of a rounding boundary
RoundedResult(value, from_factor, to_factor) ==
    MulDivHE(value, from_factor, to_factor)

\* what convert_unit(value, from_unit, to_unit, category) returns
convert_unit(in) ==
    IF in.category \notin UnitCategories
    THEN [error |-> "Category " \o in.category \o " not supported"]
    ELSE IF in.category = "temperature" THEN convert_temperature(in)
    ELSE LET units == CONVERSIONS[in.category]
         IN  IF in.from_unit \notin DOMAIN units
             THEN [error |-> "Unit " \o in.from_unit \o " not found in "
                                \o in.category]
             ELSE IF in.to_unit \notin DOMAIN units
             THEN [error |-> "Unit " \o in.to_unit \o " not found in "
                                \o in.category]
             ELSE ConversionResult(in, RoundedResult(in.value,
                                                     units[in.from_unit],
                                                     units[in.to_unit]))

UnitCall ==
    /\ unitOut = Pending
    /\ unitOut' = convert_unit(unitIn)
    /\ UNCHANGED <<unitIn, unitBack, loanVars, mortVars, gpaVars, ciVars, attVars, sweepVars, bmiVars, curVars, clockVars, detailVars, histVars, ageVars>>

\* the arguments of the conversion back: the converted value, the units swapped
BackInput(in, out) ==
    [value |-> out.converted_value, from_unit |-> in.to_unit,
     to_unit |-> in.from_unit, category |-> in.category]

\* the converted value of a conversion that succeeded is converted back
UnitBackCall ==
    /\ unitOut # Pending
    /\ "error" \notin DOMAIN unitOut
    /\ unitBack = Pending
    /\ unitBack' = convert_unit(BackInput(unitIn, unitOut))
    /\ UNCHANGED <<unitIn, unitOut, loanVars, mortVars, gpaVars, ciVars, attVars, sweepVars, bmiVars, curVars, clockVars, detailVars, histVars, ageVars>>

----------------------------------------------------------------------------
(* currency_converter: convert_currency                                    *)

\* how far the wall clock runs
MaxTicks == 2

\* the rates of the currencies drawn (base USD), in hundredths
EXCHANGE_RATES == [USD |-> 100, EUR |-> 92, JPY |-> 14950, INR |-> 8312]

CURRENCY_NAMES ==
    [USD |-> "US Dollar", EUR |-> "Euro", JPY |-> "Japanese Yen",
     INR |-> "Indian Rupee"]

\* str.upper() on the currency codes drawn
UpperCode(c) == IF c = "eur" THEN "EUR" ELSE c

\* amount in cents
CurrencyInputs ==
    [amount : {-100, 0, 100, 10000},
     from_currency : {"USD", "eur", "JPY", "INR", "XXX"},
     to_currency : {"USD", "eur", "JPY", "INR", "XXX"}]

\* what convert_currency(amount, from_currency, to_currency) returns when
\* datetime.now() is `time`; amounts in cents, rates in millionths
convert_currency(in, time) ==
    LET from_currency == UpperCode(in.from_currency)
        to_currency == UpperCode(in.to_currency)
    IN  IF from_currency \notin DOMAIN EXCHANGE_RATES
        THEN [error |-> "Currency " \o from_currency \o " not supported"]
        ELSE IF to_currency \notin DOMAIN EXCHANGE_RATES
        THEN [error |-> "Currency " \o to_currency \o " not supported"]
        ELSE IF in.amount <= 0
        THEN [error |-> "Amount must be greater than zero"]
        ELSE [original_amount |-> in.amount,
              converted_amount |-> MulDivHE(in.amount,
                                            EXCHANGE_RATES[to_currency],
                                            EXCHANGE_RATES[from_currency]),
              from_currency |-> from_currency,
              to_currency |-> to_currency,
              from_currency_name |-> CURRENCY_NAMES[from_currency],
              to_currency_name |-> CURRENCY_NAMES[to_currency],
              exchange_rate |-> MulDivHE(EXCHANGE_RATES[to_currency], MICRO,
                                         EXCHANGE_RATES[from_currency]),
              inverse_rate |-> MulDivHE(EXCHANGE_RATES[from_currency], MICRO,
                                        EXCHANGE_RATES[to_currency]),
              timestamp |-> time]

CurrencyCall ==
    /\ curOut = Pending
    /\ curOut' = convert_currency(curIn, now)
    /\ UNCHANGED <<curIn, now, prevOut, loanVars, mortVars, gpaVars, ciVars, attVars, sweepVars, bmiVars, unitVars, detailVars, histVars, ageVars>>

\* the wall clock moves on to its next reading
Tick ==
    /\ now < MaxTicks
    /\ now' = now + 1
    /\ UNCHANGED <<prevOut, curVars, loanVars, mortVars, gpaVars, ciVars, attVars, sweepVars, bmiVars, unitVars, detailVars, histVars, ageVars>>

----------------------------------------------------------------------------
(* A function called again with the arguments of a call that has ended     *)

CurrencyRepeat ==
    /\ curOut \notin {Pending, Idle}
    /\ prevOut = Idle
    /\ prevOut' = [kind |-> "convert_currency", out |-> curOut]
    /\ curOut' = Pending
    /\ UNCHANGED <<curIn, now, loanVars, mortVars, gpaVars, ciVars, attVars, sweepVars, bmiVars, unitVars, detailVars, histVars, ageVars>>

UnitRepeat ==
    /\ unitOut \notin {Pending, Idle}
    /\ prevOut = Idle
    /\ prevOut' = [kind |-> "convert_unit", out |-> unitOut]
    /\ unitOut' = Pending
    /\ UNCHANGED <<unitIn, unitBack, now, curVars, loanVars, mortVars, gpaVars, ciVars, attVars, sweepVars, bmiVars, detailVars, histVars, ageVars>>

AttendanceRepeat ==
    /\ attOut \notin {Pending, Idle}
    /\ prevOut = Idle
    /\ prevOut' = [kind |-> "calculate_attendance", out |-> attOut]
    /\ attOut' = Pending
    /\ UNCHANGED <<attIn, now, curVars, loanVars, mortVars, gpaVars, ciVars, sweepVars, bmiVars, unitVars, detailVars, histVars, ageVars>>

LoanRepeat ==
    /\ loanPc \in {"returned", "raised"}
    /\ prevOut = Idle
    /\ prevOut' = [kind |-> "calculate_loan", out |-> loanOut]
    /\ loanPc' = "call"
    /\ loanLoc' = NoLocals
    /\ loanOut' = Pending
    /\ UNCHANGED <<loanIn, now, curVars, mortVars, gpaVars, ciVars, attVars, sweepVars, bmiVars, unitVars, detailVars, histVars, ageVars>>

----------------------------------------------------------------------------
(* utils/history_manager: HistoryManager                                   *)

\* the requests that are served at the same time
Callers == {1, 2}

HistoryUsers == {"u1", "u2"}

CalculatorTypes == {"loan", "bmi"}

\* an entry of the store; 'date' and 'time' are formatted from the same clock
HistoryEntry(id, user_id, calculator_type, time) ==
    [id |-> id, user_id |-> user_id, calculator_type |-> calculator_type,
     inputs |-> "inputs", results |-> "results", timestamp |-> time]

\* the entries an earlier run of the application left in the file
OldEntries ==
    <<HistoryEntry(-2, "u1", "loan", -2), HistoryEntry(-1, "u2", "bmi", -1)>>

\* the calls drawn; calculator_type "" stands for None; entry_id is the id of
\* an old entry or a reading of the clock
HistoryCalls ==
    [op : {"save_calculation"}, user_id : HistoryUsers,
     calculator_type : CalculatorTypes, entry_id : {0}]
    \cup [op : {"delete_entry"}, user_id : HistoryUsers,
          calculator_type : {""}, entry_id : {-2, 0, 1}]
    \cup [op : {"clear_history"}, user_id : HistoryUsers,
          calculator_type : CalculatorTypes \cup {""}, entry_id : {0}]

\* a call that has not begun: its arguments, and no locals yet
StartOf(call) ==
    [op |-> call.op, user_id |-> call.user_id,
     calculator_type |-> call.calculator_type, entry_id |-> call.entry_id,
     pc |-> "load", history |-> <<>>, entry |-> <<>>, result |-> <<>>]

\* _generate_id(): the clock reading, formatted
GenerateId(time) == time

\* [h for h in history if ...]: the entries whose test (keep[i]) holds,
\* in order
RECURSIVE Filter(_, _, _)
Filter(history, keep, i) ==
    IF i > Len(history) THEN <<>>
    ELSE (IF keep[i] THEN <<history[i]>> ELSE <<>>)
            \o Filter(history, keep, i + 1)

\* history = self._load_history(), in any of the three methods
HistoryLoad(c) ==
    /\ histCall[c].pc = "load"
    /\ histCall' = [histCall EXCEPT ![c].history = histFile, ![c].pc = "loaded"]
    /\ UNCHANGED <<histFile, histStored, now, loanVars, mortVars, gpaVars, ciVars, attVars, sweepVars, bmiVars, unitVars, curVars, prevOut, detailVars, ageVars>>

\* save_calculation: the entry is built and appended to the list loaded
SaveAppend(c) ==
    /\ histCall[c].pc = "loaded"
    /\ histCall[c].op = "save_calculation"
    /\ LET entry == HistoryEntry(GenerateId(now), histCall[c].user_id,
                                 histCall[c].calculator_type, now)
       IN  histCall' = [histCall EXCEPT
                           ![c].entry = entry,
                           ![c].history = Append(@, entry),
                           ![c].pc = "write"]
    /\ UNCHANGED <<histFile, histStored, now, loanVars, mortVars, gpaVars, ciVars, attVars, sweepVars, bmiVars, unitVars, curVars, prevOut, detailVars, ageVars>>

\* save_calculation: self._save_history(history), and the return
SaveWrite(c) ==
    /\ histCall[c].pc = "write"
    /\ histCall[c].op = "save_calculation"
    /\ histFile' = histCall[c].history
    /\ histStored' = histStored \cup {histCall[c].entry}
    /\ histCall' = [histCall EXCEPT
                       ![c].pc = "returned",
                       ![c].result = [success |-> TRUE,
                                      entry_id |-> histCall[c].entry.id]]
    /\ UNCHANGED <<now, loanVars, mortVars, gpaVars, ciVars, attVars, sweepVars, bmiVars, unitVars, curVars, prevOut, detailVars, ageVars>>

\* delete_entry: filter, write if an entry went, return
DeleteEntry(c) ==
    /\ histCall[c].pc = "loaded"
    /\ histCall[c].op = "delete_entry"
    /\ LET Keep(h) == ~(h.id = histCall[c].entry_id
                          /\ h.user_id = histCall[c].user_id)
           loaded == histCall[c].history
           history == Filter(loaded, [i \in 1..Len(loaded) |-> Keep(loaded[i])], 1)
           found == Len(history) < Len(histCall[c].history)
       IN  /\ histFile' = IF found THEN history ELSE histFile
           /\ histCall' = [histCall EXCEPT
                 ![c].history = history,
                 ![c].pc = "returned",
                 ![c].result =
                     IF found
                     THEN [success |-> TRUE, message |-> "Entry deleted"]
                     ELSE [success |-> FALSE, message |-> "Entry not found"]]
    /\ UNCHANGED <<histStored, now, loanVars, mortVars, gpaVars, ciVars, attVars, sweepVars, bmiVars, unitVars, curVars, prevOut, detailVars, ageVars>>

\* clear_history: filter, write, return
ClearHistory(c) ==
    /\ histCall[c].pc = "loaded"
    /\ histCall[c].op = "clear_history"
    /\ LET Keep(h) ==
              IF histCall[c].calculator_type # ""
              THEN ~(h.user_id = histCall[c].user_id
                       /\ h.calculator_type = histCall[c].calculator_type)
              ELSE h.user_id # histCall[c].user_id
           loaded == histCall[c].history
           history == Filter(loaded, [i \in 1..Len(loaded) |-> Keep(loaded[i])], 1)
       IN  /\ histFile' = history
           /\ histCall' = [histCall EXCEPT
                 ![c].history = history,
                 ![c].pc = "returned",
                 ![c].result = [success |-> TRUE,
                                message |-> "History cleared"]]
    /\ UNCHANGED <<histStored, now, loanVars, mortVars, gpaVars, ciVars, attVars, sweepVars, bmiVars, unitVars, curVars, prevOut, detailVars, ageVars>>

----------------------------------------------------------------------------
(* calculate_age                                                           *)

\* the years drawn: a leap year and the year after it
AgeYears == {2000, 2001}

\* the days of the month drawn
AgeDays == {1, 28, 29, 30, 31}

\* the dates written in dob and reference_date as YYYY-MM-DD; some of them,
\* like 2001-02-29, are no dates
AgeDates == [year : AgeYears, month : 1..12, day : AgeDays]

AgeInputs == [dob : AgeDates, reference_date : AgeDates, detailed : BOOLEAN]

\* calendar.isleap(year)
IsLeap(year) == year % 4 = 0 /\ (year % 100 # 0 \/ year % 400 = 0)

\* calendar.monthrange(year, month)[1]
DaysInMonth(year, month) ==
    IF month = 2 THEN (IF IsLeap(year) THEN 29 ELSE 28)
    ELSE IF month \in {4, 6, 9, 11} THEN 30
    ELSE 31

\* whether datetime(year, month, day), or strptime of its text, gives a date
\* rather than a ValueError
ValidDate(d) ==
    d.month \in 1..12 /\ d.day \in 1..DaysInMonth(d.year, d.month)

\* a < b for two datetimes at midnight
DateLess(a, b) ==
    \/ a.year < b.year
    \/ a.year = b.year /\ a.month < b.month
    \/ a.year = b.year /\ a.month = b.month /\ a.day < b.day

RECURSIVE DaysBeforeMonth(_, _)
\* the days of the year that lie before the month
DaysBeforeMonth(year, month) ==
    IF month = 1 THEN 0
    ELSE DaysInMonth(year, month - 1) + DaysBeforeMonth(year, month - 1)

\* the number of the day counted from 0001-01-01; the .days of a difference
\* of two datetimes at midnight is the difference of these
Ordinal(d) ==
    LET y == d.year - 1
    IN  365 * y + (y \div 4) - (y \div 100) + (y \div 400)
          + DaysBeforeMonth(d.year, d.month) + d.day

\* the ages of calculate_milestones
MilestoneAges == {16, 18, 21, 25, 30, 40, 50, 65, 70, 75, 80, 90, 100}

\* what calculate_age(dob, reference_date, detailed) returns or raises; of
\* the detailed result the fields that name weekdays, signs and words are
\* left out
calculate_age(in) ==
    LET birth_date == in.dob
        today == in.reference_date
        day_diff == today.day - birth_date.day
        prev_month == IF today.month > 1 THEN today.month - 1 ELSE 12
        prev_year == IF today.month > 1 THEN today.year ELSE today.year - 1
        days == IF day_diff < 0
                THEN day_diff + DaysInMonth(prev_year, prev_month)
                ELSE day_diff
        month_diff == (today.month - birth_date.month)
                         - (IF day_diff < 0 THEN 1 ELSE 0)
        months == IF month_diff < 0 THEN month_diff + 12 ELSE month_diff
        years == (today.year - birth_date.year)
                    - (IF month_diff < 0 THEN 1 ELSE 0)
        total_days == Ordinal(today) - Ordinal(birth_date)
        total_months == years * 12 + months
        this_year == [birth_date EXCEPT !.year = today.year]
        year_after == [birth_date EXCEPT !.year = today.year + 1]
        next_birthday == IF DateLess(this_year, today) THEN year_after
                         ELSE this_year
        days_to_birthday == Ordinal(next_birthday) - Ordinal(today)
    IN  IF ~ValidDate(birth_date)
        THEN [kind |-> "raised", exc |-> "AgeCalculationError",
              message |-> "Invalid date format. Please use YYYY-MM-DD format."]
        ELSE IF ~ValidDate(today)
        THEN [kind |-> "raised", exc |-> "AgeCalculationError",
              message |-> "Invalid reference date format. Please use YYYY-MM-DD format."]
        ELSE IF DateLess(today, birth_date)
        THEN [kind |-> "raised", exc |-> "AgeCalculationError",
              message |-> "Date of birth cannot be in the future."]
        ELSE IF \/ ~ValidDate(this_year)
                \/ DateLess(this_year, today) /\ ~ValidDate(year_after)
        THEN \* datetime(today.year, birth_date.month, birth_date.day)
             [kind |-> "raised", exc |-> "ValueError", message |-> ""]
        ELSE IF \E age \in MilestoneAges :
                   ~ValidDate([birth_date EXCEPT !.year = @ + age])
        THEN \* datetime(birth_date.year + milestone_age, ...)
             [kind |-> "raised", exc |-> "ValueError", message |-> ""]
        ELSE IF ~in.detailed
        THEN [kind |-> "returned",
              value |-> [years |-> years, months |-> months, days |-> days,
                         total_days |-> total_days,
                         total_weeks |-> total_days \div 7,
                         total_months |-> total_months]]
        ELSE [kind |-> "returned",
              value |->
                [age |-> [years |-> years, months |-> months, days |-> days],
                 total_units |->
                    [months |-> total_months, weeks |-> total_days \div 7,
                     days |-> total_days, hours |-> total_days * 24],
                 next_birthday |->
                    [date |-> next_birthday,
                     days_remaining |-> days_to_birthday,
                     weeks_remaining |-> days_to_birthday \div 7,
                     months_remaining |-> days_to_birthday \div 30],
                 is_leap_year_born |-> IsLeap(birth_date.year)]]

AgeCall ==
    /\ ageOut = Pending
    /\ ageOut' = calculate_age(ageIn)
    /\ UNCHANGED <<ageIn, loanVars, mortVars, gpaVars, ciVars, attVars, sweepVars, bmiVars, unitVars, curVars, clockVars, detailVars, histVars>>

----------------------------------------------------------------------------
(* Properties of the other calculators                                      *)

\* the inputs C7 names: home_price <= 0, down_payment negative or greater
\* than home_price, negative interest_rate, loan_term <= 0 or > 40 years
C7_OutOfDomain ==
    \/ mortIn.home_price <= 0
    \/ mortIn.down_payment < 0 \/ mortIn.down_payment > mortIn.home_price
    \/ mortIn.interest_rate < 0
    \/ mortIn.loan_term <= 0 \/ mortIn.loan_term > 40

ArithmeticExceptions == {"ZeroDivisionError", "DivisionByZero", "InvalidOperation"}

\* C7: calculate_mortgage called with an out-of-domain input
\* never starts the computation, returns nothing, and when it fails it fails
\* with a validation error, not with an arithmetic exception.
C7_MortgageValidates ==
    C7_OutOfDomain
    => /\ mortPc \in {"call", "raised"}
       /\ mortPc = "raised" => mortOut.exc \notin ArithmeticExceptions

\* C8: a call of calculate_loan with a loan_type other than
\* 'reducing' or 'flat', and a call of calculate_gpa with a scale other than
\* '4.0' or '5.0', end in the calculator's error, never in a result.
C8_UnsupportedSelectorRaises ==
    /\ (loanPc \notin {"idle", "call"}
            /\ Lower(loanIn.loan_type) \notin {"reducing", "flat"})
       => /\ loanPc = "raised"
          /\ loanOut.exc = "LoanCalculationError"
    /\ (gpaOut \notin {Idle, Pending} /\ gpaIn.scale \notin {"4.0", "5.0"})
       => /\ gpaOut.kind = "raised"
          /\ gpaOut.exc = "GPACalculationError"

\* the floats of a result of calculate_compound_interest
CompoundFloats(in, value) ==
    IF ~in.detailed
    THEN {value.compound_interest, value.total_amount}
    ELSE {value.investment_summary.initial_principal,
          value.investment_summary.total_contributions,
          value.investment_summary.total_invested,
          value.investment_summary.compound_interest_earned,
          value.investment_summary.final_amount,
          value.investment_summary.total_return_percentage,
          value.interest_details.effective_annual_rate,
          value.contribution_details.total_contributions,
          value.contribution_details.contribution_growth,
          value.time_analysis.doubling_time_years}
         \cup {value.time_analysis.rule_of_72_estimate[i] :
                  i \in 1..Len(value.time_analysis.rule_of_72_estimate)}

\* C9: every float of a result calculate_compound_interest
\* returns, in simple and in detailed mode, doubling_time_years included, is
\* finite.
C9_FiniteOutputs ==
    ciOut.kind = "returned"
    => \A x \in CompoundFloats(ciIn, ciOut.value) : ~x.inf

\* the least whole number not below x / y, for x >= 0 and y > 0
Ceil(x, y) == (x + y - 1) \div y

\* C10: with attendance below target, the classes_needed
\* returned is ceil((target * total - 100 * attended) / (100 - target)).
C10_ClassesNeededIsCeiling ==
    (attOut.kind = "returned" /\ 100 * attIn.attended < attIn.target * attIn.total)
    => attOut.value.classes_needed
         = Ceil(attIn.target * attIn.total - 100 * attIn.attended,
                100 - attIn.target)

\* attendance exactly at target, in a call whose arguments pass validation
AtTarget ==
    /\ AttendanceValidationMessage(attIn) = ""
    /\ 100 * attIn.attended = attIn.target * attIn.total

\* C11: whenever attendance is exactly at target, calculate_attendance
\* returns status 'Good' with classes_needed = 0.
C11_AtTargetIsGood ==
    (attOut # Pending /\ AtTarget)
    => /\ attOut.kind = "returned"
       /\ attOut.value.status = "Good"
       /\ attOut.value.classes_needed = 0

\* the call with the same total and target and the given number of classes
\* attended
WithAttended(a) == calculate_attendance([attIn EXCEPT !.attended = a])

\* C12: for a fixed total and target, a call with more classes attended
\* (up to total) never returns a smaller percentage.
C12_PercentageMonotone ==
    attOut.kind = "returned"
    => \A a \in attIn.attended .. attIn.total :
          WithAttended(a).kind = "returned"
          => WithAttended(a).value.percentage >= attOut.value.percentage

C12_Witness ==
    /\ attOut.kind = "returned"
    /\ attIn.attended + 1 < attIn.total
    /\ WithAttended(attIn.attended + 1).kind = "returned"
    /\ WithAttended(attIn.attended + 1).value.percentage
          > attOut.value.percentage

\* C13: for a fixed principal and term, a call with a higher rate (within
\* 0..50) never returns a smaller total_interest, reducing or flat.
C13_InterestMonotoneInRate ==
    (loanPc = "returned" /\ loanPrev # Idle)
    => loanOut.value.total_interest >= loanPrev.out.value.total_interest

\* the adult categories, from the lowest range to the highest
BmiCategoryNames ==
    <<"Severe Underweight", "Moderate Underweight", "Mild Underweight",
      "Normal Weight", "Overweight", "Obese Class I", "Obese Class II",
      "Obese Class III">>

\* the category of the range a BMI lies in, each range including its lower
\* threshold
LowerInclusiveCategory(bmi) ==
    BmiCategoryNames[1 + Cardinality({t \in BmiThresholds : t <= bmi})]

\* C14: for an adult or unspecified age, get_bmi_category puts every BMI in
\* the one category whose range, lower threshold included, holds it
\* (thresholds 16, 17, 18.5, 25, 30, 35, 40); 18.5 is 'Normal Weight' and 25
\* is 'Overweight'.
C14_LowerInclusiveCategories ==
    (bmiOut.kind = "returned" /\ (bmiIn.age = 0 \/ bmiIn.age >= 20))
    => /\ bmiOut.value.category = LowerInclusiveCategory(bmiIn.bmi)
       /\ bmiIn.bmi = 1850 => bmiOut.value.category = "Normal Weight"
       /\ bmiIn.bmi = 2500 => bmiOut.value.category = "Overweight"

C14_Witness ==
    /\ bmiOut.kind = "returned"
    /\ bmiIn.age = 0
    /\ bmiIn.bmi = 1850
    /\ bmiOut.value.category = "Normal Weight"

\* the scale maximum, in tenths of a grade point: the most points a grade of
\* the scale's table earns
ScaleMaximum(scale) ==
    CHOOSE p \in {get_grade_points(scale)[g] : g \in DOMAIN get_grade_points(scale)} :
        \A g \in DOMAIN get_grade_points(scale) : get_grade_points(scale)[g] <= p

\* the highest letter the scale's table defines: the first it lists with the
\* most points
TopLetter(scale) ==
    GradeLetters[CHOOSE i \in 1..Len(GradeLetters) :
        /\ get_grade_points(scale)[GradeLetters[i]] = ScaleMaximum(scale)
        /\ \A j \in 1..(i - 1) :
              get_grade_points(scale)[GradeLetters[j]] < ScaleMaximum(scale)]

\* a call on the 4.0 or 5.0 scale with courses of positive credits that all
\* earn the scale maximum
AllTopGrades ==
    /\ gpaIn.scale \in {"4.0", "5.0"}
    /\ gpaIn.courses # <<>>
    /\ \A i \in 1..Len(gpaIn.courses) :
          /\ gpaIn.courses[i].credits > 0
          /\ Upper(gpaIn.courses[i].grade) \in DOMAIN get_grade_points(gpaIn.scale)
          /\ get_grade_points(gpaIn.scale)[Upper(gpaIn.courses[i].grade)]
                = ScaleMaximum(gpaIn.scale)

\* C15: a course list that holds only the scale's top grade gives gpa = the
\* scale maximum (4.0 or 5.0) and, as letter grade, the highest letter the
\* scale's grade table defines.
C15_TopGradeAtScaleMaximum ==
    (gpaOut # Pending /\ gpaOut # Idle /\ AllTopGrades)
    => /\ gpaOut.kind = "returned"
       /\ gpaOut.value.gpa = 10 * ScaleMaximum(gpaIn.scale)
       /\ gpaOut.value.grade = TopLetter(gpaIn.scale)

\* C16: in the categories length, weight, volume, area and speed, converting
\* x from A to B and the converted_value back from B to A gives x within a
\* relative tolerance of 1e-6.
C16_RoundTrip ==
    (/\ unitBack # Pending /\ unitBack # Idle
     /\ unitIn.category # "temperature")
    => /\ "error" \notin DOMAIN unitBack
       /\ Abs(unitBack.converted_value - unitIn.value)
             <= Abs(unitIn.value) \div MICRO

\* C17: a second call of convert_currency, convert_unit, calculate_loan or
\* calculate_attendance with the arguments of an earlier call returns what the
\* earlier call returned, whatever the time of the call.
C17_SameInputsSameOutput ==
    /\ (prevOut.kind = "convert_currency" /\ curOut # Pending)
          => curOut = prevOut.out
    /\ (prevOut.kind = "convert_unit" /\ unitOut # Pending)
          => unitOut = prevOut.out
    /\ (prevOut.kind = "calculate_attendance" /\ attOut # Pending)
          => attOut = prevOut.out
    /\ (prevOut.kind = "calculate_loan" /\ loanPc \in {"returned", "raised"})
          => loanOut = prevOut.out

\* whether the dictionary d has every top-level field of the dictionary
\* `simple`, with the same value
HasFieldsOf(d, simple) ==
    \A f \in DOMAIN simple : f \in DOMAIN d /\ d[f] = simple[f]

\* C18: for each calculator with a detailed flag (loan, attendance, GPA),
\* every top-level field of the simple result is in the detailed result of
\* the same arguments, under the same name and with the same value.
C18_DetailedHasSimpleFields ==
    /\ (attOut.kind = "returned" /\ attDet.kind = "returned")
          => HasFieldsOf(attDet.value, attOut.value)
    /\ (gpaOut.kind = "returned" /\ gpaDet.kind = "returned")
          => HasFieldsOf(gpaDet.value, gpaOut.value)
    /\ (loanPrev # Idle /\ loanPc = "returned")
          => HasFieldsOf(loanOut.value, loanPrev.out.value)

\* the entries in the store
StoreEntries == {histFile[i] : i \in 1..Len(histFile)}

\* C19: the history store is append-only: after any sequence of
\* HistoryManager operations, every record save_calculation has stored is
\* still in the store, unchanged.
C19_AppendOnly == histStored \subseteq StoreEntries

YearlySummary(schedule) ==
    LET n == Len(schedule)
        years == (n + 11) \div 12
    IN  [y \in 1..years |->
            LET lo == 12 * (y - 1) + 1
                hi == IF 12 * y <= n THEN 12 * y ELSE n
            IN  [year |-> y,
                 principal_paid |-> SumField(schedule, "principal", lo, hi),
                 interest_paid |-> SumField(schedule, "interest", lo, hi),
                 total_paid |-> SumField(schedule, "emi", lo, hi),
                 ending_balance |-> schedule[hi].balance]]

\* C21: the yearly summary of a returned ledger partitions it into
\* consecutive groups of 12 rows with a possibly shorter last group: there
\* are ceil(rows/12) entries numbered 1, 2, ..., each entry's principal_paid,
\* interest_paid and total_paid are the sums over its own rows, and its
\* ending_balance is the balance of its last row
C21_YearlySummaryPartitions ==
    LoanDetailed =>
        LET summary == loanOut.value.yearly_summary
            n == Len(LoanLedger)
        IN  /\ Len(summary) = Ceil(n, 12)
            /\ \A y \in 1..Len(summary) : summary[y].year = y
            /\ summary = YearlySummary(LoanLedger)

\* a ledger with a full year and a shorter last year has been summarised
C21_Witness ==
    /\ LoanDetailed
    /\ Len(LoanLedger) > 12
    /\ Len(LoanLedger) % 12 # 0
    /\ Len(loanOut.value.yearly_summary) = 2

\* a validated loan whose periodic rate is exactly zero has ended
ZeroRateLoanEnded ==
    /\ loanPc \in {"raised", "returned"}
    /\ LoanValidationMessage(loanIn) = ""
    /\ MonthlyRate(Dec(loanIn.rate)) = 0

\* a mortgage inside its documented domain whose periodic rate is exactly
\* zero has ended
ZeroRateMortgageEnded ==
    /\ mortPc \in {"raised", "returned"}
    /\ ~C7_OutOfDomain
    /\ MonthlyRate(Dec(mortIn.interest_rate)) = 0

\* C22: when the periodic rate is exactly zero, calculate_loan and
\* calculate_mortgage return a result (no division by zero occurs) whose
\* payment is principal / total periods rounded to cents, whose rows all have
\* an interest portion of 0 and whose total_interest is 0
C22_ZeroRateStraightLine ==
    /\ ZeroRateLoanEnded =>
          /\ loanOut.kind = "returned"
          /\ loanOut.value.emi =
                 Cents(Quantize2(DDivN(Dec(loanIn.amount),
                                       MonthsOf(loanIn.duration))))
          /\ loanOut.value.total_interest = 0
          /\ loanIn.detailed =>
                 \A i \in 1..Len(LoanLedger) : LoanLedger[i].interest = 0
    /\ ZeroRateMortgageEnded =>
          /\ mortOut.kind = "returned"
          /\ mortOut.value.monthly_principal_interest =
                 Cents(Quantize2(DDivN(Dec(mortIn.home_price - mortIn.down_payment),
                                       mortIn.loan_term * 12)))
          /\ mortOut.value.total_interest = 0
          /\ \A i \in 1..Len(mortOut.value.amortization_schedule) :
                 mortOut.value.amortization_schedule[i].interest = 0

\* the same statement for loans of at least one monthly period
C22_ZeroRateWholeMonths ==
    (ZeroRateLoanEnded => MonthsOf(loanIn.duration) >= 1)
        => C22_ZeroRateStraightLine

\* the iterations a period loop of calculate_loan has run so far
LoanIterations == loanLoc.month

\* calculate_loan has ended: it returned, or raised
LoanEnded == loanPc \in {"raised", "returned"}

\* the bound on each period loop of a validated call: range(1, months + 1)
\* with months = int(duration * 12) <= duration * 12 <= 480; the break-even
\* search runs as many iterations as the month it reports
C23_LoopBounds ==
    LoanValidationMessage(loanIn) = "" =>
        /\ loanLoc.months * 100 <= loanIn.duration * 12
        /\ loanLoc.months <= MAX_DURATION * 12
        /\ LoanIterations <= loanLoc.months
        /\ Len(loanLoc.schedule) <= loanLoc.months
        /\ (LoanDetailed /\ ~IsFlat(loanIn))
              => loanOut.value.break_even_month \in 1..loanLoc.months

\* C23: every evaluation of calculate_loan on a validated input ends, and
\* each of its period loops (ledger, break-even search, flat schedule) runs
\* at most duration * 12 iterations, which is at most 480
C23_Terminates ==
    /\ []C23_LoopBounds
    /\ (LoanValidationMessage(loanIn) = "" /\ loanPc = "call") ~> LoanEnded

\* a validated loan has returned after its ledger loop ran the whole term
C23_Witness ==
    /\ LoanDetailed
    /\ LoanValidationMessage(loanIn) = ""
    /\ LoanIterations = loanLoc.months
    /\ loanLoc.months = 3 * MaxQuarters
    /\ Len(LoanLedger) = loanLoc.months

\* both callers called save_calculation and both calls returned success
BothSavesReturned ==
    \A c \in Callers :
        /\ histCall[c].op = "save_calculation"
        /\ histCall[c].pc = "returned"
        /\ histCall[c].result.success

\* C24: when two save_calculation calls on the same history file interleave,
\* then after both have returned success the store holds both entries and
\* every entry either call found in the store; no entry is lost
C24_InterleavedSavesKeepBoth ==
    BothSavesReturned =>
        \A c \in Callers :
            /\ histCall[c].entry \in StoreEntries
            /\ \A i \in 1..Len(histCall[c].history) :
                   histCall[c].history[i] \in StoreEntries

\* the same statement for calls that do not overlap: one call loads only
\* after the other has written
C24_SequentialSavesKeepBoth ==
    (/\ BothSavesReturned
     /\ \E c, d \in Callers : histCall[c].entry \in
            {histCall[d].history[i] : i \in 1..Len(histCall[d].history) - 1})
        => \A c \in Callers : histCall[c].entry \in StoreEntries

\* C25: every entry in the store has an id different from the id of every
\* other entry in the store, for any sequence or interleaving of saves,
\* two saves at the same clock reading included
C25_UniqueIds ==
    \A i, j \in 1..Len(histFile) :
        i # j => histFile[i].id # histFile[j].id

\* the same statement for stores whose entries were saved at different
\* clock readings
C25_UniqueIdsAtDistinctReadings ==
    (\A i, j \in 1..Len(histFile) :
        i # j => histFile[i].timestamp # histFile[j].timestamp)
        => C25_UniqueIds

\* whether record h is outside what the call may remove: a record of
\* another user, or for a typed clear of another calculator type
OutsideCall(call, h) ==
    IF call.op = "clear_history" /\ call.calculator_type # ""
    THEN ~(h.user_id = call.user_id
             /\ h.calculator_type = call.calculator_type)
    ELSE h.user_id # call.user_id

\* the records of a store that are outside the call, in order
RecordsOutside(call, store) ==
    Filter(store, [i \in 1..Len(store) |-> OutsideCall(call, store[i])], 1)

\* whether the delete_entry call matches some record of the store
DeleteMatches(call, store) ==
    \E i \in 1..Len(store) :
        store[i].id = call.entry_id /\ store[i].user_id = call.user_id

\* what a deleting step of caller c leaves of the store
FrameOfDelete(c) ==
    LET call == histCall[c]
    IN  /\ RecordsOutside(call, histFile') = RecordsOutside(call, histFile)
        /\ (call.op = "delete_entry" /\ ~DeleteMatches(call, histFile))
              => /\ ~histCall'[c].result.success
                 /\ histFile' = histFile

\* C26: delete_entry and clear_history remove only records of their user
\* (a typed clear: only of that calculator type): every other record stays
\* in the store, unchanged and in the same order, and a delete_entry that
\* matches no record returns success=False and leaves the store unchanged
C26_RemovesOnlyOwnRecords ==
    [][\A c \in Callers :
          (DeleteEntry(c) \/ ClearHistory(c)) => FrameOfDelete(c)]_vars

\* the same statement for calls during which no other call writes the
\* store: what the call loaded is still what the store holds
C26_RemovesOnlyOwnRecordsAlone ==
    [][\A c \in Callers :
          ((DeleteEntry(c) \/ ClearHistory(c))
              /\ histCall[c].history = histFile) => FrameOfDelete(c)]_vars

\* C27: for every input that passes calculate_loan's validation, durations
\* shorter than one month included, the number of monthly periods is at least
\* 1 and calculate_loan returns a result with a non-empty schedule; it never
\* ends in a division by zero or an index error
C27_ValidLoanHasPeriods ==
    (LoanEnded /\ LoanValidationMessage(loanIn) = "") =>
        /\ loanOut.kind = "returned"
        /\ loanLoc.months >= 1
        /\ Len(loanLoc.schedule) >= 1

\* the same statement for durations of at least one month
C27_WholeMonthLoanHasPeriods ==
    (loanIn.duration * 12 >= 100) => C27_ValidLoanHasPeriods

\* C28: for every attended, total and target inside the validated bounds
\* (0 <= attended <= total, total > 0, 0 <= target <= 100, target = 0 and
\* target = 100 included) calculate_attendance returns a result; no division
\* by zero occurs in classes_needed or can_miss
C28_ValidAttendanceReturns ==
    (attOut.kind \in {"raised", "returned"}
        /\ AttendanceValidationMessage(attIn) = "")
        => attOut.kind = "returned"

\* the same statement for targets strictly between 0 and 100
C28_InnerTargetReturns ==
    (attOut.kind \in {"raised", "returned"}
        /\ attIn.target > 0 /\ attIn.target < 100)
        => C28_ValidAttendanceReturns

\* C29: for every input that passes calculate_compound_interest's
\* validation, rate = 0 together with monthly_contribution > 0 included, the
\* function returns a result; the annuity term of the contributions never
\* divides by a zero periodic rate
C29_ValidCompoundReturns ==
    (ciOut.kind \in {"raised", "returned"}
        /\ CompoundValidationMessage(ciIn) = "")
        => ciOut.kind = "returned"

\* the same statement for inputs without contributions or with a rate above 0
C29_ReturnsUnlessZeroRateAnnuity ==
    (ciOut.kind \in {"raised", "returned"}
        /\ (ciIn.rate > 0 \/ ciIn.monthly_contribution <= 0))
        => C29_ValidCompoundReturns

\* the years, months and days of a result of calculate_age
AgeDecomposition ==
    IF ageIn.detailed THEN ageOut.value.age
    ELSE [years |-> ageOut.value.years, months |-> ageOut.value.months,
          days |-> ageOut.value.days]

\* a call whose dates are dates, the date of birth not after the reference
\* date, has ended
AgeOfPastBirthEnded ==
    /\ ageOut.kind \in {"raised", "returned"}
    /\ ValidDate(ageIn.dob) /\ ValidDate(ageIn.reference_date)
    /\ ~DateLess(ageIn.reference_date, ageIn.dob)

\* C30: for every date of birth not after the reference date calculate_age
\* returns a result whose decomposition has years >= 0, 0 <= months <= 11
\* and 0 <= days <= 30, whatever the month lengths and leap years (born on
\* the 31st, or on 29 February)
C30_AgeDecompositionInRange ==
    AgeOfPastBirthEnded =>
        /\ ageOut.kind = "returned"
        /\ AgeDecomposition.years >= 0
        /\ AgeDecomposition.months \in 0..11
        /\ AgeDecomposition.days \in 0..30

\* the same statement for births on the 1st to the 28th of a month
C30_InRangeForEarlyDays ==
    (ageIn.dob.day <= 28) => C30_AgeDecompositionInRange

----------------------------------------------------------------------------
(* Specifications: one per calculator, the arguments of its call drawn in   *)
(* the initial state and the other calculators not called                   *)

LoanInit ==
    /\ loanIn \in LoanInputs
    /\ loanPc = "call"
    /\ loanLoc = NoLocals
    /\ loanOut = Pending
    /\ mortIn = <<>> /\ mortPc = "idle" /\ mortLoc = NoMortgageLocals /\ mortOut = Idle
    /\ gpaIn = <<>> /\ gpaOut = Idle
    /\ ciIn = <<>> /\ ciOut = Idle
    /\ attIn = <<>> /\ attOut = Idle
    /\ loanPrev = Idle
    /\ bmiIn = <<>> /\ bmiOut = Idle
    /\ unitIn = <<>> /\ unitOut = Idle /\ unitBack = Idle
    /\ curIn = <<>> /\ curOut = Idle
    /\ now = 0 /\ prevOut = Idle
    /\ attDet = Idle /\ gpaDet = Idle
    /\ histFile = <<>> /\ histCall = <<>> /\ histStored = {}
    /\ ageIn = <<>> /\ ageOut = Idle

LoanSpec == LoanInit /\ [][LoanNext]_vars

\* the validated calls followed to their end: shorter than a month, the
\* shortest and the longest term drawn, with and without a prepayment that
\* pays the loan off early
LoanTermInputs ==
    [amount : {100}, rate : {0, 48},
     duration : {5, 25, 25 * MaxQuarters},
     loan_type : {"reducing", "flat"}, prepayment : {0, 100},
     prepayment_month : {MaxPrepayMonth}, detailed : {TRUE}]

LoanTermInit ==
    /\ loanIn \in LoanTermInputs
    /\ loanPc = "call"
    /\ loanLoc = NoLocals
    /\ loanOut = Pending
    /\ mortIn = <<>> /\ mortPc = "idle" /\ mortLoc = NoMortgageLocals /\ mortOut = Idle
    /\ gpaIn = <<>> /\ gpaOut = Idle
    /\ ciIn = <<>> /\ ciOut = Idle
    /\ attIn = <<>> /\ attOut = Idle
    /\ loanPrev = Idle
    /\ bmiIn = <<>> /\ bmiOut = Idle
    /\ unitIn = <<>> /\ unitOut = Idle /\ unitBack = Idle
    /\ curIn = <<>> /\ curOut = Idle
    /\ now = 0 /\ prevOut = Idle
    /\ attDet = Idle /\ gpaDet = Idle
    /\ histFile = <<>> /\ histCall = <<>> /\ histStored = {}
    /\ ageIn = <<>> /\ ageOut = Idle

\* the interpreter keeps executing a call that has a next step
LoanFairSpec == LoanTermInit /\ [][LoanNext]_vars /\ WF_vars(LoanNext)

MortgageInit ==
    /\ mortIn \in MortgageInputs
    /\ mortPc = "call"
    /\ mortLoc = NoMortgageLocals
    /\ mortOut = Pending
    /\ loanIn = <<>> /\ loanPc = "idle" /\ loanLoc = NoLocals /\ loanOut = Idle
    /\ gpaIn = <<>> /\ gpaOut = Idle
    /\ ciIn = <<>> /\ ciOut = Idle
    /\ attIn = <<>> /\ attOut = Idle
    /\ loanPrev = Idle
    /\ bmiIn = <<>> /\ bmiOut = Idle
    /\ unitIn = <<>> /\ unitOut = Idle /\ unitBack = Idle
    /\ curIn = <<>> /\ curOut = Idle
    /\ now = 0 /\ prevOut = Idle
    /\ attDet = Idle /\ gpaDet = Idle
    /\ histFile = <<>> /\ histCall = <<>> /\ histStored = {}
    /\ ageIn = <<>> /\ ageOut = Idle

MortgageSpec == MortgageInit /\ [][MortgageNext]_vars

\* a call of calculate_loan, of one amount and rate and of every loan_type, or
\* a call of calculate_gpa
SelectorLoanInputs ==
    {in \in LoanInputs : /\ in.amount = 100 /\ in.rate = 12
                         /\ in.duration \in {25, 50}
                         /\ in.prepayment = 0 /\ in.prepayment_month = 0}

SelectorInit ==
    /\ \/ /\ loanIn \in SelectorLoanInputs
          /\ loanPc = "call" /\ loanLoc = NoLocals /\ loanOut = Pending
          /\ gpaIn = <<>> /\ gpaOut = Idle
       \/ /\ gpaIn \in GpaInputs /\ gpaOut = Pending
          /\ loanIn = <<>> /\ loanPc = "idle" /\ loanLoc = NoLocals /\ loanOut = Idle
    /\ mortIn = <<>> /\ mortPc = "idle" /\ mortLoc = NoMortgageLocals /\ mortOut = Idle
    /\ ciIn = <<>> /\ ciOut = Idle
    /\ attIn = <<>> /\ attOut = Idle
    /\ loanPrev = Idle
    /\ bmiIn = <<>> /\ bmiOut = Idle
    /\ unitIn = <<>> /\ unitOut = Idle /\ unitBack = Idle
    /\ curIn = <<>> /\ curOut = Idle
    /\ now = 0 /\ prevOut = Idle
    /\ attDet = Idle /\ gpaDet = Idle
    /\ histFile = <<>> /\ histCall = <<>> /\ histStored = {}
    /\ ageIn = <<>> /\ ageOut = Idle

SelectorNext == LoanNext \/ GpaCall

SelectorSpec == SelectorInit /\ [][SelectorNext]_vars

CompoundInit ==
    /\ ciIn \in CompoundInputs
    /\ ciOut = Pending
    /\ loanIn = <<>> /\ loanPc = "idle" /\ loanLoc = NoLocals /\ loanOut = Idle
    /\ mortIn = <<>> /\ mortPc = "idle" /\ mortLoc = NoMortgageLocals /\ mortOut = Idle
    /\ gpaIn = <<>> /\ gpaOut = Idle
    /\ attIn = <<>> /\ attOut = Idle
    /\ loanPrev = Idle
    /\ bmiIn = <<>> /\ bmiOut = Idle
    /\ unitIn = <<>> /\ unitOut = Idle /\ unitBack = Idle
    /\ curIn = <<>> /\ curOut = Idle
    /\ now = 0 /\ prevOut = Idle
    /\ attDet = Idle /\ gpaDet = Idle
    /\ histFile = <<>> /\ histCall = <<>> /\ histStored = {}
    /\ ageIn = <<>> /\ ageOut = Idle

CompoundNext == CompoundCall

CompoundSpec == CompoundInit /\ [][CompoundNext]_vars

AttendanceInit ==
    /\ attIn \in AttendanceInputs
    /\ attOut = Pending
    /\ loanIn = <<>> /\ loanPc = "idle" /\ loanLoc = NoLocals /\ loanOut = Idle
    /\ mortIn = <<>> /\ mortPc = "idle" /\ mortLoc = NoMortgageLocals /\ mortOut = Idle
    /\ gpaIn = <<>> /\ gpaOut = Idle
    /\ ciIn = <<>> /\ ciOut = Idle
    /\ loanPrev = Idle
    /\ bmiIn = <<>> /\ bmiOut = Idle
    /\ unitIn = <<>> /\ unitOut = Idle /\ unitBack = Idle
    /\ curIn = <<>> /\ curOut = Idle
    /\ now = 0 /\ prevOut = Idle
    /\ attDet = Idle /\ gpaDet = Idle
    /\ histFile = <<>> /\ histCall = <<>> /\ histStored = {}
    /\ ageIn = <<>> /\ ageOut = Idle

AttendanceNext == AttendanceCall

AttendanceSpec == AttendanceInit /\ [][AttendanceNext]_vars

\* two calls of calculate_loan, the second with a higher rate
RateSweepInit ==
    /\ loanIn \in SweepInputs
    /\ loanPc = "call"
    /\ loanLoc = NoLocals
    /\ loanOut = Pending
    /\ loanPrev = Idle
    /\ mortIn = <<>> /\ mortPc = "idle" /\ mortLoc = NoMortgageLocals /\ mortOut = Idle
    /\ gpaIn = <<>> /\ gpaOut = Idle
    /\ ciIn = <<>> /\ ciOut = Idle
    /\ attIn = <<>> /\ attOut = Idle
    /\ bmiIn = <<>> /\ bmiOut = Idle
    /\ unitIn = <<>> /\ unitOut = Idle /\ unitBack = Idle
    /\ curIn = <<>> /\ curOut = Idle
    /\ now = 0 /\ prevOut = Idle
    /\ attDet = Idle /\ gpaDet = Idle
    /\ histFile = <<>> /\ histCall = <<>> /\ histStored = {}
    /\ ageIn = <<>> /\ ageOut = Idle

RateSweepNext == LoanNext \/ LoanAgain

RateSweepSpec == RateSweepInit /\ [][RateSweepNext]_vars

BmiInit ==
    /\ bmiIn \in BmiInputs
    /\ bmiOut = Pending
    /\ loanIn = <<>> /\ loanPc = "idle" /\ loanLoc = NoLocals /\ loanOut = Idle
    /\ loanPrev = Idle
    /\ mortIn = <<>> /\ mortPc = "idle" /\ mortLoc = NoMortgageLocals /\ mortOut = Idle
    /\ gpaIn = <<>> /\ gpaOut = Idle
    /\ ciIn = <<>> /\ ciOut = Idle
    /\ attIn = <<>> /\ attOut = Idle
    /\ unitIn = <<>> /\ unitOut = Idle /\ unitBack = Idle
    /\ curIn = <<>> /\ curOut = Idle
    /\ now = 0 /\ prevOut = Idle
    /\ attDet = Idle /\ gpaDet = Idle
    /\ histFile = <<>> /\ histCall = <<>> /\ histStored = {}
    /\ ageIn = <<>> /\ ageOut = Idle

BmiNext == BmiCategoryCall

BmiSpec == BmiInit /\ [][BmiNext]_vars

\* a conversion, and the conversion of its result back
UnitInit ==
    /\ unitIn \in UnitInputs
    /\ unitOut = Pending
    /\ unitBack = Pending
    /\ loanIn = <<>> /\ loanPc = "idle" /\ loanLoc = NoLocals /\ loanOut = Idle
    /\ loanPrev = Idle
    /\ mortIn = <<>> /\ mortPc = "idle" /\ mortLoc = NoMortgageLocals /\ mortOut = Idle
    /\ gpaIn = <<>> /\ gpaOut = Idle
    /\ ciIn = <<>> /\ ciOut = Idle
    /\ attIn = <<>> /\ attOut = Idle
    /\ bmiIn = <<>> /\ bmiOut = Idle
    /\ curIn = <<>> /\ curOut = Idle
    /\ now = 0 /\ prevOut = Idle
    /\ attDet = Idle /\ gpaDet = Idle
    /\ histFile = <<>> /\ histCall = <<>> /\ histStored = {}
    /\ ageIn = <<>> /\ ageOut = Idle

UnitNext == UnitCall \/ UnitBackCall

UnitSpec == UnitInit /\ [][UnitNext]_vars

\* the calls drawn for calculate_loan when it is called twice
RepeatLoanInputs ==
    {in \in LoanInputs : /\ in.amount \in {0, 100} /\ in.rate = 12
                         /\ in.duration \in {0, 25}
                         /\ in.loan_type \in {"reducing", "flat"}
                         /\ in.prepayment = 0 /\ in.prepayment_month = 0}

\* one of the four functions is called, and called again with the same
\* arguments, while time passes
RepeatInit ==
    /\ now = 0
    /\ prevOut = Idle
    /\ \/ /\ curIn \in CurrencyInputs /\ curOut = Pending
          /\ unitIn = <<>> /\ unitOut = Idle
          /\ attIn = <<>> /\ attOut = Idle
          /\ loanIn = <<>> /\ loanPc = "idle" /\ loanOut = Idle
       \/ /\ unitIn \in UnitInputs /\ unitOut = Pending
          /\ curIn = <<>> /\ curOut = Idle
          /\ attIn = <<>> /\ attOut = Idle
          /\ loanIn = <<>> /\ loanPc = "idle" /\ loanOut = Idle
       \/ /\ attIn \in AttendanceInputs /\ attOut = Pending
          /\ curIn = <<>> /\ curOut = Idle
          /\ unitIn = <<>> /\ unitOut = Idle
          /\ loanIn = <<>> /\ loanPc = "idle" /\ loanOut = Idle
       \/ /\ loanIn \in RepeatLoanInputs /\ loanPc = "call" /\ loanOut = Pending
          /\ curIn = <<>> /\ curOut = Idle
          /\ unitIn = <<>> /\ unitOut = Idle
          /\ attIn = <<>> /\ attOut = Idle
    /\ loanLoc = NoLocals
    /\ loanPrev = Idle
    /\ unitBack = Idle
    /\ mortIn = <<>> /\ mortPc = "idle" /\ mortLoc = NoMortgageLocals /\ mortOut = Idle
    /\ gpaIn = <<>> /\ gpaOut = Idle
    /\ ciIn = <<>> /\ ciOut = Idle
    /\ bmiIn = <<>> /\ bmiOut = Idle
    /\ attDet = Idle /\ gpaDet = Idle
    /\ histFile = <<>> /\ histCall = <<>> /\ histStored = {}
    /\ ageIn = <<>> /\ ageOut = Idle

RepeatNext ==
    \/ Tick
    \/ CurrencyCall \/ CurrencyRepeat
    \/ UnitCall \/ UnitRepeat
    \/ AttendanceCall \/ AttendanceRepeat
    \/ LoanNext \/ LoanRepeat

RepeatSpec == RepeatInit /\ [][RepeatNext]_vars

\* a calculator with a detailed flag is called without the flag and with it
DetailInit ==
    /\ \/ /\ attIn \in AttendanceInputs /\ attOut = Pending /\ attDet = Pending
          /\ gpaIn = <<>> /\ gpaOut = Idle /\ gpaDet = Idle
          /\ loanIn = <<>> /\ loanPc = "idle" /\ loanOut = Idle
       \/ /\ gpaIn \in GpaInputs /\ gpaOut = Pending /\ gpaDet = Pending
          /\ attIn = <<>> /\ attOut = Idle /\ attDet = Idle
          /\ loanIn = <<>> /\ loanPc = "idle" /\ loanOut = Idle
       \/ /\ loanIn \in {in \in SweepInputs : ~in.detailed}
          /\ loanPc = "call" /\ loanOut = Pending
          /\ attIn = <<>> /\ attOut = Idle /\ attDet = Idle
          /\ gpaIn = <<>> /\ gpaOut = Idle /\ gpaDet = Idle
    /\ loanLoc = NoLocals
    /\ loanPrev = Idle
    /\ mortIn = <<>> /\ mortPc = "idle" /\ mortLoc = NoMortgageLocals /\ mortOut = Idle
    /\ ciIn = <<>> /\ ciOut = Idle
    /\ bmiIn = <<>> /\ bmiOut = Idle
    /\ unitIn = <<>> /\ unitOut = Idle /\ unitBack = Idle
    /\ curIn = <<>> /\ curOut = Idle
    /\ now = 0 /\ prevOut = Idle
    /\ histFile = <<>> /\ histCall = <<>> /\ histStored = {}
    /\ ageIn = <<>> /\ ageOut = Idle

DetailNext ==
    \/ AttendanceCall \/ AttendanceDetailedCall
    \/ GpaCall \/ GpaDetailedCall
    \/ LoanNext \/ LoanDetailedAgain

DetailSpec == DetailInit /\ [][DetailNext]_vars

\* each caller makes one call of the HistoryManager, on a file that holds
\* nothing or the entries of an earlier run
HistoryInit ==
    /\ histFile \in {SubSeq(OldEntries, 1, n) : n \in 0..Len(OldEntries)}
    /\ histCall \in [Callers -> {StartOf(call) : call \in HistoryCalls}]
    /\ histStored = {}
    /\ now = 0
    /\ prevOut = Idle
    /\ loanIn = <<>> /\ loanPc = "idle" /\ loanLoc = NoLocals /\ loanOut = Idle
    /\ loanPrev = Idle
    /\ mortIn = <<>> /\ mortPc = "idle" /\ mortLoc = NoMortgageLocals /\ mortOut = Idle
    /\ gpaIn = <<>> /\ gpaOut = Idle
    /\ ciIn = <<>> /\ ciOut = Idle
    /\ attIn = <<>> /\ attOut = Idle
    /\ bmiIn = <<>> /\ bmiOut = Idle
    /\ unitIn = <<>> /\ unitOut = Idle /\ unitBack = Idle
    /\ curIn = <<>> /\ curOut = Idle
    /\ attDet = Idle /\ gpaDet = Idle
    /\ ageIn = <<>> /\ ageOut = Idle

HistoryNext ==
    \/ Tick
    \/ \E c \in Callers :
          \/ HistoryLoad(c)
          \/ SaveAppend(c) \/ SaveWrite(c)
          \/ DeleteEntry(c)
          \/ ClearHistory(c)

HistorySpec == HistoryInit /\ [][HistoryNext]_vars

AgeInit ==
    /\ ageIn \in AgeInputs
    /\ ageOut = Pending
    /\ loanIn = <<>> /\ loanPc = "idle" /\ loanLoc = NoLocals /\ loanOut = Idle
    /\ loanPrev = Idle
    /\ mortIn = <<>> /\ mortPc = "idle" /\ mortLoc = NoMortgageLocals /\ mortOut = Idle
    /\ gpaIn = <<>> /\ gpaOut = Idle
    /\ ciIn = <<>> /\ ciOut = Idle
    /\ attIn = <<>> /\ attOut = Idle
    /\ bmiIn = <<>> /\ bmiOut = Idle
    /\ unitIn = <<>> /\ unitOut = Idle /\ unitBack = Idle
    /\ curIn = <<>> /\ curOut = Idle
    /\ now = 0 /\ prevOut = Idle
    /\ attDet = Idle /\ gpaDet = Idle
    /\ histFile = <<>> /\ histCall = <<>> /\ histStored = {}

AgeNext == AgeCall

AgeSpec == AgeInit /\ [][AgeNext]_vars

----------------------------------------------------------------------------
====
